---- MODULE Spec2Model ----
(***************************************************************************)
(* boofi: task ledger (task.rs), token list (controller.rs) and the REST   *)
(* handlers that drive them (rest.rs), as a state machine.                 *)
(***************************************************************************)
EXTENDS Integers, Sequences, FiniteSets, TLC

VARIABLES
    tasks,       \* TaskController.tasks: the ledger, a Vec<Task> behind a tokio Mutex
    last_id,     \* TaskController.last_id
    ledgerLock,  \* holder of the ledger Mutex
    unit,        \* the spawned execution unit of each task id: position and handler result
    ctrlLock,    \* holder of the Mutex around the shared Controller (0: free)
    req,         \* every REST request in flight: position, apps left to submit, values returned so far
    auths,       \* AuthController.auths: Vec<Auth>
    duration,    \* AuthController.duration: the configured token TTL
    now,         \* SystemTime::now()
    nextToken,   \* the next value AuthController::token() draws
    issued,      \* log of every insert_or_replace call (history, not program state)
    lastGet,     \* the get or delete call of the last step and what it returned (history)
    system,      \* SystemManager.system: Option<System>, <<>> until the first resolution
    endpoint,    \* SystemManager.endpoint: None (local su) or an ssh endpoint
    web,         \* every request to the router in flight: position, headers, extensions, response
    built,       \* number of Systems the SystemManager has cached (history)
    revoked,     \* tokens a DELETE /token request answered ACCEPTED for (history)
    query,       \* the lookup asked of the file registry: path, OS tag, builder
    matched,     \* Option<bool>: what the builder's match returned
    found,       \* Option<Result>: what file_builders_mut_by_match returned
    call,        \* a call of a function of the program on its own: the function and its arguments
    answer,      \* Option: what that call returned and the transport calls it made
    su           \* one Posix::run_user call: parent, writer task, child process and its stdin pipe

taskVars == <<tasks, last_id, ledgerLock, unit, ctrlLock, req>>
authVars == <<auths, duration, now, nextToken, issued, lastGet>>
sysVars == <<system, endpoint, web, built, revoked>>
regVars == <<query, matched, found>>
callVars == <<call, answer>>
extVars == <<sysVars, regVars, callVars, su>>
vars == <<tasks, last_id, ledgerLock, unit, ctrlLock, req,
          auths, duration, now, nextToken, issued, lastGet,
          system, endpoint, web, built, revoked, query, matched, found, call, answer, su>>

-----------------------------------------------------------------------------
(* Bounds of the model *)

\* tasks submitted in one behaviour
MaxTasks == 2
\* apps named in one POST /apps body
MaxBatch == 2
\* ticks of the wall clock in one behaviour
MaxTime == 3
\* largest configured token TTL
MaxTTL == 2
\* insert_or_replace calls in one behaviour
MaxIssued == 2

\* concurrent REST requests
Reqs == {1, 2}
TaskIds == 1..MaxTasks

-----------------------------------------------------------------------------
(* Apps and their invocation (apps/mod.rs, apps/ls.rs, apps/sh.rs) *)

\* the two apps the ledger tests and the REST tests submit
AppNames == {"ls", "sh"}
\* a raw input that deserializes into the app's typed input, and one that does not
Inputs == {"valid", "malformed"}
\* what the transport does with the command: exit status zero or not
Transports == {"exit0", "exit1"}
None == "None"

Ok(v) == [ok |-> TRUE, val |-> v]
Err(e) == [ok |-> FALSE, val |-> e]

\* the typed output of a successful run: Vec<LsEntry> for ls, the stdout String for sh
AppOutput(name) == IF name = "ls" THEN "entries" ELSE "stdout"

\* mutant: the input is handed to the transport without being deserialized
AppRunUnchecked(name, input, transport) ==
    IF transport = "exit1" THEN Err("RunUser") ELSE Ok(AppOutput(name))

\* AppBuilders::run -> App::run: deserialize the input first, then call the transport
AppRun(name, input, transport) ==
    IF input = "malformed" THEN Err("Deserialize")
    ELSE IF transport = "exit1" THEN Err("RunUser")
    ELSE Ok(AppOutput(name))

\* mutant: the serializer rejects the output of sh
ToValueRejecting(out) == IF out = "stdout" THEN Err("SerdeJson") ELSE Ok(out)

\* serde_json::to_value on a handler output: Vec<LsEntry> and String always serialize
ToValue(out) == Ok(out)

\* format!("{:?}", error): the Debug text of an Erro, never empty
DebugText(e) == e

-----------------------------------------------------------------------------
(* The ledger (task.rs) *)

Free == [kind |-> "free", who |-> 0]
ByReq(r) == [kind |-> "req", who |-> r]
ByUnit(id) == [kind |-> "unit", who |-> id]

NoUnit == [pc |-> "none", result |-> Err(None)]
IdleReq == [pc |-> "idle", kind |-> "none", left |-> 0, out |-> <<>>, app |-> None]

\* mutant: the id is taken from last_id without advancing it
NextIdStale == IF last_id = 0 THEN 1 ELSE last_id

\* the id new_task allocates
NextId == last_id + 1

\* the Task new_task builds
NewTask(id, item) ==
    [id |-> id, app_name |-> item.name, status |-> "Created", app_input |-> item.input,
     app |-> FALSE, app_output |-> None, app_error |-> None]

\* Vec::get_mut(index)
ValidIndex(index) == index >= 0 /\ index < Len(tasks)

Terminal(status) == status \in {"Finished", "Failed"}

-----------------------------------------------------------------------------
(* REST requests (rest.rs) *)

\* the request bodies of the repository's tests: sh with a command (rest.rs tests),
\* ls with an unknown field (task.rs, new_task_failed)
Items == {[name |-> "sh", input |-> "valid"],
          [name |-> "ls", input |-> "malformed"]}

\* apps still to be submitted by the requests in flight
RECURSIVE Pending(_)
Pending(S) == IF S = {} THEN 0
              ELSE LET r == CHOOSE x \in S : TRUE IN req[r].left + Pending(S \ {r})

\* POST /apps?async=true with a parsed body; every app is found and compatible
AppsPostStart(r) ==
    /\ req[r].pc = "idle"
    /\ \E n \in 1..MaxBatch :
        /\ last_id + Pending(Reqs) + n <= MaxTasks
        /\ req' = [req EXCEPT ![r] = [pc |-> "wait", kind |-> "submit", left |-> n,
                                      out |-> <<>>, app |-> None]]
    /\ UNCHANGED <<tasks, last_id, ledgerLock, unit, ctrlLock>>
    /\ UNCHANGED authVars
    /\ UNCHANGED extVars

\* GET /tasks
TasksGetStart(r) ==
    /\ req[r].pc = "idle"
    /\ req' = [req EXCEPT ![r] = [pc |-> "wait", kind |-> "poll", left |-> 0,
                                  out |-> <<>>, app |-> None]]
    /\ UNCHANGED <<tasks, last_id, ledgerLock, unit, ctrlLock>>
    /\ UNCHANGED authVars
    /\ UNCHANGED extVars

\* controller.lock().await
LockController(r) ==
    /\ req[r].pc = "wait"
    /\ ctrlLock = 0
    /\ ctrlLock' = r
    /\ req' = [req EXCEPT ![r].pc = "held"]
    /\ UNCHANGED <<tasks, last_id, ledgerLock, unit>>
    /\ UNCHANGED authVars
    /\ UNCHANGED extVars

\* new_task, first half: lock the ledger, allocate the id, serialize the snapshot,
\* push the record, store last_id
NewTaskPush(r) ==
    /\ req[r].pc = "held"
    /\ req[r].kind = "submit"
    /\ req[r].left > 0
    /\ ledgerLock = Free
    /\ \E item \in Items :
        LET id == NextId
            task == NewTask(id, item)
        IN /\ tasks' = Append(tasks, task)
           /\ last_id' = id
           /\ req' = [req EXCEPT ![r].pc = "pushed", ![r].app = task]
    /\ ledgerLock' = ByReq(r)
    /\ UNCHANGED <<unit, ctrlLock>>
    /\ UNCHANGED authVars
    /\ UNCHANGED extVars

\* new_task: tokio::spawn of the execution unit; the JoinHandle is dropped
NewTaskSpawn(r) ==
    /\ req[r].pc = "pushed"
    /\ unit' = [unit EXCEPT ![req[r].app.id] = [pc |-> "spawned", result |-> Err(None)]]
    /\ req' = [req EXCEPT ![r].pc = "spawnedUnit"]
    /\ UNCHANGED <<tasks, last_id, ledgerLock, ctrlLock>>
    /\ UNCHANGED authVars
    /\ UNCHANGED extVars

\* mutant: new_task awaits the JoinHandle instead of dropping it
NewTaskReturnAwaiting(r) ==
    /\ req[r].pc = "spawnedUnit"
    /\ unit[req[r].app.id].pc = "done"
    /\ ledgerLock' = Free
    /\ req' = [req EXCEPT ![r].pc = "held",
                          ![r].left = req[r].left - 1,
                          ![r].out = Append(req[r].out, req[r].app),
                          ![r].app = None]
    /\ UNCHANGED <<tasks, last_id, unit, ctrlLock>>
    /\ UNCHANGED authVars
    /\ UNCHANGED extVars

\* new_task returns the snapshot; the ledger guard taken at its start is dropped here
NewTaskReturn(r) ==
    /\ req[r].pc = "spawnedUnit"
    /\ ledgerLock' = Free
    /\ req' = [req EXCEPT ![r].pc = "held",
                          ![r].left = req[r].left - 1,
                          ![r].out = Append(req[r].out, req[r].app),
                          ![r].app = None]
    /\ UNCHANGED <<tasks, last_id, unit, ctrlLock>>
    /\ UNCHANGED authVars
    /\ UNCHANGED extVars

\* tasks_get: task_ctrl.tasks().lock().await, under the Controller lock
TasksGetLock(r) ==
    /\ req[r].pc = "held"
    /\ req[r].kind = "poll"
    /\ ledgerLock = Free
    /\ ledgerLock' = ByReq(r)
    /\ req' = [req EXCEPT ![r].pc = "reading"]
    /\ UNCHANGED <<tasks, last_id, unit, ctrlLock>>
    /\ UNCHANGED authVars
    /\ UNCHANGED extVars

\* tasks_get: serialize every task of the locked ledger into the response; the ledger
\* guard and the Controller guard are dropped as the handler returns
TasksGetRead(r) ==
    /\ req[r].pc = "reading"
    /\ ledgerLock' = Free
    /\ ctrlLock' = 0
    /\ req' = [req EXCEPT ![r] = IdleReq]
    /\ UNCHANGED <<tasks, last_id, unit>>
    /\ UNCHANGED authVars
    /\ UNCHANGED extVars

\* apps_post returns the snapshots; the Controller guard is dropped
Respond(r) ==
    /\ req[r].pc = "held"
    /\ req[r].kind = "submit"
    /\ req[r].left = 0
    /\ ctrlLock' = 0
    /\ req' = [req EXCEPT ![r] = IdleReq]
    /\ UNCHANGED <<tasks, last_id, ledgerLock, unit>>
    /\ UNCHANGED authVars
    /\ UNCHANGED extVars

-----------------------------------------------------------------------------
(* The spawned execution unit of a task (task.rs, the async block) *)

\* mutant: the unit starts the handler without flipping the record to Running
UnitRunningUnflipped(id) ==
    /\ unit[id].pc = "spawned"
    /\ ledgerLock = Free
    /\ unit' = [unit EXCEPT ![id].pc = "running"]
    /\ UNCHANGED <<tasks, last_id, ledgerLock, ctrlLock, req>>
    /\ UNCHANGED authVars
    /\ UNCHANGED extVars

\* mutant: the guard taken for the flip to Running is kept while the handler executes
UnitRunningHolding(id) ==
    /\ unit[id].pc = "spawned"
    /\ ledgerLock = Free
    /\ IF ValidIndex(id - 1)
       THEN /\ tasks' = [tasks EXCEPT ![id].status = "Running"]
            /\ unit' = [unit EXCEPT ![id].pc = "running"]
            /\ ledgerLock' = ByUnit(id)
       ELSE /\ unit' = [unit EXCEPT ![id].pc = "escaped", ![id].result = Err("TaskInvalidIndex")]
            /\ UNCHANGED <<tasks, ledgerLock>>
    /\ UNCHANGED <<last_id, ctrlLock, req>>
    /\ UNCHANGED authVars
    /\ UNCHANGED extVars

\* tasks.lock().await.get_mut(index).ok_or(TaskInvalidIndex)?.status = Running
UnitRunning(id) ==
    /\ unit[id].pc = "spawned"
    /\ ledgerLock = Free
    /\ IF ValidIndex(id - 1)
       THEN /\ tasks' = [tasks EXCEPT ![id].status = "Running"]
            /\ unit' = [unit EXCEPT ![id].pc = "running"]
       ELSE /\ unit' = [unit EXCEPT ![id].pc = "escaped", ![id].result = Err("TaskInvalidIndex")]
            /\ UNCHANGED tasks
    /\ UNCHANGED <<last_id, ledgerLock, ctrlLock, req>>
    /\ UNCHANGED authVars
    /\ UNCHANGED extVars

\* mutant: the unit runs the app on a well-formed input of its own, not on the submitted one
UnitAppRunOwnInput(id) ==
    /\ unit[id].pc = "running"
    /\ \E transport \in Transports :
        unit' = [unit EXCEPT ![id].pc = "returned",
                             ![id].result = AppRun(tasks[id].app_name, "valid", transport)]
    /\ UNCHANGED <<tasks, last_id, ledgerLock, ctrlLock, req>>
    /\ UNCHANGED authVars
    /\ UNCHANGED extVars

\* app.run(value, &system).await returns; no lock is held
UnitAppRun(id) ==
    /\ unit[id].pc = "running"
    /\ \E transport \in Transports :
        unit' = [unit EXCEPT ![id].pc = "returned",
                             ![id].result = AppRun(tasks[id].app_name, tasks[id].app_input, transport)]
    /\ UNCHANGED <<tasks, last_id, ledgerLock, ctrlLock, req>>
    /\ UNCHANGED authVars
    /\ UNCHANGED extVars

\* mutant: the unit takes the Controller lock together with the ledger lock
UnitLockBoth(id) ==
    /\ unit[id].pc = "returned"
    /\ ledgerLock = Free
    /\ ctrlLock = 0
    /\ ledgerLock' = ByUnit(id)
    /\ ctrlLock' = 0 - id
    /\ unit' = [unit EXCEPT ![id].pc = "locked"]
    /\ UNCHANGED <<tasks, last_id, req>>
    /\ UNCHANGED authVars
    /\ UNCHANGED extVars

\* let mut tasks_unlocked = tasks.lock().await
UnitLock(id) ==
    /\ unit[id].pc = "returned"
    /\ ledgerLock = Free
    /\ ledgerLock' = ByUnit(id)
    /\ unit' = [unit EXCEPT ![id].pc = "locked"]
    /\ UNCHANGED <<tasks, last_id, ctrlLock, req>>
    /\ UNCHANGED authVars
    /\ UNCHANGED extVars

\* mutant: the ledger guard is dropped between the two assignments of the match arm
UnitWriteResultUnlocked(id) ==
    /\ unit[id].pc = "locked"
    /\ tasks' = IF unit[id].result.ok
                THEN [tasks EXCEPT ![id].app_output = unit[id].result.val]
                ELSE [tasks EXCEPT ![id].app_error = unit[id].result.val]
    /\ unit' = [unit EXCEPT ![id].pc = "written"]
    /\ ledgerLock' = Free
    /\ UNCHANGED <<last_id, ctrlLock, req>>
    /\ UNCHANGED authVars
    /\ UNCHANGED extVars

\* get_mut(index)?, then the first assignment of the match arm: the output or the error
UnitWriteResult(id) ==
    /\ unit[id].pc = "locked"
    /\ LET result == unit[id].result
           value == ToValue(result.val)
       IN IF ~ValidIndex(id - 1)
          THEN /\ unit' = [unit EXCEPT ![id].pc = "escaped", ![id].result = Err("TaskInvalidIndex")]
               /\ ledgerLock' = Free
               /\ UNCHANGED tasks
          ELSE IF result.ok /\ ~value.ok
          THEN /\ unit' = [unit EXCEPT ![id].pc = "escaped", ![id].result = Err("SerdeJson")]
               /\ ledgerLock' = Free
               /\ UNCHANGED tasks
          ELSE /\ tasks' = IF result.ok
                           THEN [tasks EXCEPT ![id].app_output = value.val]
                           ELSE [tasks EXCEPT ![id].app_error = DebugText(result.val)]
               /\ unit' = [unit EXCEPT ![id].pc = "written"]
               /\ UNCHANGED ledgerLock
    /\ UNCHANGED <<last_id, ctrlLock, req>>
    /\ UNCHANGED authVars
    /\ UNCHANGED extVars

\* mutant: the unit writes the terminal status into the first record of the ledger
UnitWriteStatusFirst(id) ==
    /\ unit[id].pc = "written"
    /\ tasks' = [tasks EXCEPT ![1].status = IF unit[id].result.ok THEN "Finished" ELSE "Failed",
                              ![1].app = TRUE]
    /\ unit' = [unit EXCEPT ![id].pc = "done"]
    /\ ledgerLock' = Free
    /\ UNCHANGED <<last_id, ctrlLock, req>>
    /\ UNCHANGED authVars
    /\ UNCHANGED extVars

\* the second assignment of the match arm: the terminal status; then task.app = Some(app),
\* and the guard is dropped as the unit ends
UnitWriteStatus(id) ==
    /\ unit[id].pc = "written"
    /\ tasks' = [tasks EXCEPT ![id].status = IF unit[id].result.ok THEN "Finished" ELSE "Failed",
                              ![id].app = TRUE]
    /\ unit' = [unit EXCEPT ![id].pc = "done"]
    /\ ledgerLock' = Free
    /\ UNCHANGED <<last_id, ctrlLock, req>>
    /\ UNCHANGED authVars
    /\ UNCHANGED extVars

-----------------------------------------------------------------------------
(* Requests to the router and the SystemManager at rest (rest.rs, system/mod.rs) *)

\* Credential: a username and a secret; NoCred while the request carries none
NoCred == <<None, None>>
NoHeader == [kind |-> "none", username |-> None, password |-> None, token |-> 0]
NoRoute == [kind |-> "none", name |-> None, async |-> FALSE, input |-> None, path |-> <<>>]

\* a request slot with no request in it. An Option<T> field is a sequence of length <= 1.
IdleWeb == [pc |-> "idle", route |-> NoRoute, header |-> NoHeader, cred |-> NoCred,
            ext |-> <<>>, sys |-> <<>>, probe |-> "none", looked |-> FALSE, ran |-> FALSE,
            status |-> None, error |-> None, body |-> <<>>]

\* SystemManager::new(endpoint) with no request in flight; the endpoint is local
SysIdle ==
    /\ system = <<>>
    /\ endpoint = "local"
    /\ web = [r \in Reqs |-> IdleWeb]
    /\ built = 0
    /\ revoked = {}

\* a lookup in the file registry, while none is asked for
NoQuery == [path |-> <<>>, os |-> None, builder |-> 0]

\* no lookup is asked for
RegIdle ==
    /\ query = NoQuery
    /\ matched = <<>>
    /\ found = <<>>

\* no function is called on its own
NoFn == [fn |-> "none", arg |-> <<>>]

\* no run_user call has started: no child, no writer, no pipe
SuIdle == [parent |-> "idle", writer |-> "none", child |-> "none", stdin |-> "none",
           secret |-> "none", written |-> FALSE, got |-> "nothing",
           exit |-> <<>>, stderr |-> "none", result |-> <<>>]

\* no function is called on its own and no run_user call is in progress
CallIdle ==
    /\ call = NoFn
    /\ answer = <<>>
    /\ su = SuIdle

-----------------------------------------------------------------------------
(* Specification of the ledger *)

TaskInit ==
    /\ tasks = <<>>
    /\ last_id = 0
    /\ ledgerLock = Free
    /\ unit = [id \in TaskIds |-> NoUnit]
    /\ ctrlLock = 0
    /\ req = [r \in Reqs |-> IdleReq]

\* the token list is left alone in the behaviours of the ledger
AuthIdle ==
    /\ auths = <<>>
    /\ duration = 0
    /\ now = 0
    /\ nextToken = 1
    /\ issued = <<>>
    /\ lastGet = [op |-> "none", token |-> 0, ret |-> Err(None)]

Init == TaskInit /\ AuthIdle /\ SysIdle /\ RegIdle /\ CallIdle

Next ==
    \/ \E r \in Reqs : AppsPostStart(r)
    \/ \E r \in Reqs : TasksGetStart(r)
    \/ \E r \in Reqs : LockController(r)
    \/ \E r \in Reqs : NewTaskPush(r)
    \/ \E r \in Reqs : NewTaskSpawn(r)
    \/ \E r \in Reqs : NewTaskReturn(r)
    \/ \E r \in Reqs : TasksGetLock(r)
    \/ \E r \in Reqs : TasksGetRead(r)
    \/ \E r \in Reqs : Respond(r)
    \/ \E id \in TaskIds : UnitRunning(id)
    \/ \E id \in TaskIds : UnitAppRun(id)
    \/ \E id \in TaskIds : UnitLock(id)
    \/ \E id \in TaskIds : UnitWriteResult(id)
    \/ \E id \in TaskIds : UnitWriteStatus(id)

Spec == Init /\ [][Next]_vars

\* fair scheduling of the ledger: the runtime runs every ready step of a request or of a
\* unit (WF), and the tokio Mutex grants its waiters in FIFO order (SF on the acquisitions)
\* a holder of the ledger lock runs on to the point where it drops the guard
HolderStep ==
    \/ \E r \in Reqs : NewTaskSpawn(r) \/ NewTaskReturn(r) \/ TasksGetRead(r)
    \/ \E id \in TaskIds : UnitWriteResult(id) \/ UnitWriteStatus(id)

LedgerFairness ==
    /\ WF_vars(HolderStep)
    /\ \A id \in TaskIds : SF_vars(UnitLock(id))

FairSpec == Init /\ [][Next]_vars /\ LedgerFairness

\* the steps of a request in flight, from its wait for the Controller lock on
RequestStep(r) ==
    \/ LockController(r) \/ NewTaskPush(r) \/ NewTaskSpawn(r) \/ NewTaskReturn(r)
    \/ TasksGetLock(r) \/ TasksGetRead(r) \/ Respond(r)

\* the steps of the unit spawned for a task
UnitStep(id) ==
    \/ UnitRunning(id) \/ UnitAppRun(id) \/ UnitLock(id)
    \/ UnitWriteResult(id) \/ UnitWriteStatus(id)

\* every step but an arrival
Proceed == (\E r \in Reqs : RequestStep(r)) \/ (\E id \in TaskIds : UnitStep(id))

\* fair scheduling of both locks: a tokio Mutex grants its waiters in FIFO order, so an
\* acquisition that is possible again and again is granted; every other step of a
\* request or a unit is run once it is ready, and a handler that was started returns.
\* A request has one next step at a time, so strong fairness of its steps taken together
\* is strong fairness of each acquisition and fairness of each other step. The units take
\* finitely many steps each, so fairness of the steps of all units together is enough.
LockFairness ==
    /\ \A r \in Reqs : SF_vars(RequestStep(r))
    /\ SF_vars(\E id \in TaskIds : UnitStep(id))

FairSpecLocks == Init /\ [][Next]_vars /\ LockFairness

-----------------------------------------------------------------------------
(* The token list (controller.rs) *)

Users == {"alice", "bob"}
Passwords == {"p1", "p2"}
\* a bearer value that token() never returned
NeverIssued == 0
Tokens == NeverIssued..(MaxIssued + 1)

\* AuthController::token(): 16 random alphanumeric characters. Two draws (62^16 values)
\* are taken to differ: each call returns a value no earlier call returned.
Token == nextToken

\* mutant: the boundary instant still counts as valid
ExpiredLate(auth, t) == t > auth.date + duration

\* Auth::expired: SystemTime::now() >= self.date + duration
Expired(auth, t) == t >= auth.date + duration

\* index of the first record the predicate of a linear scan accepts, 0 when none
FirstByUser(list, username) ==
    IF \E i \in 1..Len(list) : list[i].username = username
    THEN CHOOSE i \in 1..Len(list) :
            /\ list[i].username = username
            /\ \A j \in 1..(i - 1) : list[j].username # username
    ELSE 0

FirstByToken(list, token) ==
    IF \E i \in 1..Len(list) : list[i].token = token
    THEN CHOOSE i \in 1..Len(list) :
            /\ list[i].token = token
            /\ \A j \in 1..(i - 1) : list[j].token # token
    ELSE 0

\* mutant: the scan for the username is skipped and a record is always pushed
AlwaysPush(list, username, password, token, t) ==
    Append(list, [token |-> token, username |-> username, password |-> password, date |-> t])

\* AuthController::insert_or_replace: the list after the call. A record of the username
\* gets the password and a new token and keeps its date; otherwise a record is pushed.
InsertOrReplaceList(list, username, password, token, t) ==
    LET i == FirstByUser(list, username)
    IN IF i # 0
       THEN [list EXCEPT ![i].password = password, ![i].token = token]
       ELSE Append(list, [token |-> token, username |-> username,
                          password |-> password, date |-> t])

\* AuthController::get at time t
AuthGet(list, token, t) ==
    LET i == FirstByToken(list, token)
    IN IF i = 0 THEN Err("AuthNotFound")
       ELSE IF Expired(list[i], t) THEN Err("AuthTokenExpired")
       ELSE Ok(<<list[i].username, list[i].password>>)

\* AuthController::delete: the list after retain
DeleteList(list, token) == SelectSeq(list, LAMBDA auth : auth.token # token)

\* lastGet while the last call was neither get nor delete
NoCall == [op |-> "none", token |-> NeverIssued, ret |-> Err(None)]

InsertOrReplace(username, password) ==
    /\ Len(issued) < MaxIssued
    /\ auths' = InsertOrReplaceList(auths, username, password, Token, now)
    /\ nextToken' = nextToken + 1
    /\ issued' = Append(issued, [token |-> Token, username |-> username,
                                 password |-> password, at |-> now,
                                 fresh |-> FirstByUser(auths, username) = 0])
    /\ lastGet' = NoCall
    /\ UNCHANGED <<duration, now>>
    /\ UNCHANGED taskVars
    /\ UNCHANGED extVars

\* mutant: a lookup that finds the token expired evicts its record
GetEvicting(token) ==
    /\ lastGet' = [op |-> "get", token |-> token, ret |-> AuthGet(auths, token, now)]
    /\ auths' = IF AuthGet(auths, token, now) = Err("AuthTokenExpired")
                THEN DeleteList(auths, token) ELSE auths
    /\ UNCHANGED <<duration, now, nextToken, issued>>
    /\ UNCHANGED taskVars
    /\ UNCHANGED extVars

\* a request handler calls auth().get(token)
Get(token) ==
    /\ lastGet' = [op |-> "get", token |-> token, ret |-> AuthGet(auths, token, now)]
    /\ UNCHANGED <<auths, duration, now, nextToken, issued>>
    /\ UNCHANGED taskVars
    /\ UNCHANGED extVars

\* mutant: the length before retain is compared with >= instead of >
DeleteNotGrown(token) ==
    /\ auths' = DeleteList(auths, token)
    /\ lastGet' = [op |-> "delete", token |-> token,
                   ret |-> Ok(Len(auths) >= Len(auths'))]
    /\ UNCHANGED <<duration, now, nextToken, issued>>
    /\ UNCHANGED taskVars
    /\ UNCHANGED extVars

\* AuthController::delete: retain, then report whether the list became shorter
Delete(token) ==
    /\ auths' = DeleteList(auths, token)
    /\ lastGet' = [op |-> "delete", token |-> token,
                   ret |-> Ok(Len(auths) > Len(auths'))]
    /\ UNCHANGED <<duration, now, nextToken, issued>>
    /\ UNCHANGED taskVars
    /\ UNCHANGED extVars

\* the wall clock advances
Tick ==
    /\ now < MaxTime
    /\ now' = now + 1
    /\ lastGet' = NoCall
    /\ UNCHANGED <<auths, duration, nextToken, issued>>
    /\ UNCHANGED taskVars
    /\ UNCHANGED extVars

\* Controller::new(max_token_expiration, ..): an empty list and the configured TTL
AuthInit ==
    /\ auths = <<>>
    /\ duration \in 0..MaxTTL
    /\ now = 0
    /\ nextToken = 1
    /\ issued = <<>>
    /\ lastGet = NoCall

AuthNext ==
    \/ \E username \in Users, password \in Passwords : InsertOrReplace(username, password)
    \/ \E token \in NeverIssued..(nextToken - 1) : Get(token)
    \/ \E token \in NeverIssued..(nextToken - 1) : Delete(token)
    \/ Tick

\* the ledger is left alone in the behaviours of the token list
InitAuth == AuthInit /\ TaskInit /\ SysIdle /\ RegIdle /\ CallIdle

SpecAuth == InitAuth /\ [][AuthNext]_vars

-----------------------------------------------------------------------------
(* Operating systems (system/os.rs) *)

Os == {"Unknown", "LinuxUnknown", "LinuxAny", "LinuxArchlinux", "LinuxFedora",
       "LinuxOpenSusLeap", "LinuxUbuntu", "LinuxUbuntuLuna", "LinuxUbuntuFocal",
       "LinuxUbuntuBionic", "LinuxDebian", "LinuxDebianBookworm", "LinuxDebianBullseye",
       "LinuxDebianBuster"}

UbuntuReleases == {"LinuxUbuntuBionic", "LinuxUbuntuFocal", "LinuxUbuntuLuna"}
DebianReleases == {"LinuxDebianBookworm", "LinuxDebianBuster", "LinuxDebianBullseye"}

\* mutant: the equality shortcut is dropped
CompatibleNoEq(self, other) ==
    IF self = "LinuxAny"
    THEN other \in {"LinuxArchlinux", "LinuxFedora", "LinuxOpenSusLeap", "LinuxDebian",
                    "LinuxUbuntu"} \cup UbuntuReleases \cup DebianReleases
    ELSE IF self = "LinuxUbuntu" THEN other \in {"LinuxAny"} \cup UbuntuReleases
    ELSE IF self = "LinuxDebian" THEN other \in {"LinuxAny"} \cup DebianReleases
    ELSE FALSE

\* mutant: LinuxAny also lists LinuxUnknown
CompatibleLinuxUnknown(self, other) ==
    \/ self = other
    \/ self = "LinuxAny" /\ other = "LinuxUnknown"
    \/ CompatibleNoEq(self, other)

\* Os::compatible(&self, other)
Compatible(self, other) ==
    IF self = other THEN TRUE
    ELSE IF self = "LinuxAny"
    THEN other \in {"LinuxArchlinux", "LinuxFedora", "LinuxOpenSusLeap", "LinuxDebian",
                    "LinuxUbuntu"} \cup UbuntuReleases \cup DebianReleases
    ELSE IF self = "LinuxUbuntu" THEN other \in {"LinuxAny"} \cup UbuntuReleases
    ELSE IF self = "LinuxDebian" THEN other \in {"LinuxAny"} \cup DebianReleases
    ELSE FALSE

\* Os::from_str
OsFromStr(str) ==
    CASE str = "linux" -> "LinuxAny"
      [] str = "luna" -> "LinuxUbuntuLuna"
      [] str = "focal" -> "LinuxUbuntuFocal"
      [] str = "bionic" -> "LinuxUbuntuBionic"
      [] str = "bookworm" -> "LinuxDebianBookworm"
      [] str = "bullseye" -> "LinuxDebianBullseye"
      [] str = "buster" -> "LinuxDebianBuster"
      [] OTHER -> "Unknown"

-----------------------------------------------------------------------------
(* The SystemManager and the token routes (system/mod.rs, system/posix.rs, rest.rs) *)

Endpoints == {"local", "ssh"}

\* the username/password pairs the backend accepts (su, or the ssh server)
Accepted == {<<"alice", "p1">>, <<"bob", "p2">>}

\* what /etc/os-release of the endpoint says: (id, version codename), or unreadable
OsReleases == {<<"ubuntu", "focal">>, <<"arch", "">>}

\* Posix::detect_os once /proc/version names Linux
DetectedOs(release) ==
    IF release[1] = "unreadable" THEN "LinuxUnknown"
    ELSE IF release[1] \in {"ubuntu", "debian"}
    THEN OsFromStr(IF release[2] = "" THEN release[1] ELSE release[2])
    ELSE OsFromStr(release[1])

\* IntoResponse for Erro: the status code of an error
StatusCode(e) ==
    IF e \in {"AuthNotFound", "AuthTokenExpired", "RestAuthInvalid", "RunUserUserInvalid",
              "RunUserPasswordInvalid"}
    THEN "UNAUTHORIZED"
    ELSE IF e \in {"RestAuthMissing", "AppBodyMissing", "Deserialize"} THEN "BAD_REQUEST"
    ELSE IF e \in {"TaskNotFound", "AppNotFound", "FilesNotMatchedByName",
                   "FilesNotMatchedByPattern"}
    THEN "NOT_FOUND"
    ELSE "INTERNAL_SERVER_ERROR"

\* the error of a command run with a credential the backend rejects
RejectedError == IF endpoint = "local" THEN "RunUserPasswordInvalid" ELSE "AsyncSsh"
\* the error of a command that exits non-zero
ExitError == IF endpoint = "local" THEN "RunUser" ELSE "RunSsh"

\* System::os
SystemOs(sys) == IF sys.os = <<>> THEN Err("OsDetection") ELSE Ok(sys.os[1])

Basic(username, password) ==
    [kind |-> "basic", username |-> username, password |-> password, token |-> 0]
Bearer(token) == [kind |-> "bearer", username |-> None, password |-> None, token |-> token]
\* the credentials requests present: the accepted ones and a wrong password
Credentials == Accepted \cup {<<"alice", "p2">>}
Headers ==
    {Basic(cred[1], cred[2]) : cred \in Credentials}
        \cup {Bearer(token) : token \in NeverIssued..(nextToken - 1)}

TokenRoute(kind) == [kind |-> kind, name |-> None, async |-> FALSE, input |-> None, path |-> <<>>]

\* the response of a request: the handler returned Ok(body) or Err(e)
Answered(r, status, body) ==
    [web[r] EXCEPT !.pc = "done", !.status = status, !.body = body,
                   !.cred = NoCred, !.ext = <<>>, !.sys = <<>>]
Failed(r, e) ==
    [web[r] EXCEPT !.pc = "done", !.status = StatusCode(e), !.error = e,
                   !.cred = NoCred, !.ext = <<>>, !.sys = <<>>]

\* requests in flight that will still call insert_or_replace / may still reach the endpoint
Issuing == Cardinality({r \in Reqs : web[r].route.kind = "tokenGet"
                                       /\ web[r].pc \notin {"idle", "done"}})

ledgerVars == <<tasks, last_id, ledgerLock, unit, req>>
clockVars == <<duration, now, lastGet>>

\* a GET /token or DELETE /token request arrives with an Authorization header
TokenArrive(r) ==
    /\ web[r].pc = "idle"
    /\ \E kind \in {"tokenGet", "tokenDelete"}, header \in Headers :
        /\ kind = "tokenGet" => Len(issued) + Issuing < MaxIssued
        /\ web' = [web EXCEPT ![r] = [IdleWeb EXCEPT !.pc = "auth",
                                                     !.route = TokenRoute(kind),
                                                     !.header = header]]
    /\ UNCHANGED <<system, endpoint, built, revoked, ctrlLock>>
    /\ UNCHANGED <<regVars, callVars, su, ledgerVars, clockVars, auths, nextToken, issued>>

\* mutant: the middleware runs the handler whatever get returns
AuthPassing(r) ==
    /\ web[r].pc = "auth"
    /\ web[r].header.kind = "bearer" => ctrlLock = 0
    /\ web' = [web EXCEPT ![r].pc = "handler",
                          ![r].ext = IF web[r].header.kind = "bearer"
                                     THEN <<web[r].header.token>> ELSE <<>>]
    /\ UNCHANGED <<system, endpoint, built, revoked, ctrlLock>>
    /\ UNCHANGED <<regVars, callVars, su, ledgerVars, clockVars, auths, nextToken, issued>>

\* the auth middleware: Basic is decoded; Bearer is looked up in the token list under the
\* Controller lock, and an error of the lookup is the response
Auth(r) ==
    /\ web[r].pc = "auth"
    /\ LET header == web[r].header
       IN IF header.kind = "basic"
          THEN web' = [web EXCEPT ![r].pc = "handler",
                                  ![r].cred = <<header.username, header.password>>]
          ELSE /\ ctrlLock = 0
               /\ LET auth == AuthGet(auths, header.token, now)
                  IN IF auth.ok
                     THEN web' = [web EXCEPT ![r].pc = "handler",
                                             ![r].cred = auth.val,
                                             ![r].ext = <<header.token>>]
                     ELSE web' = [web EXCEPT ![r] = Failed(r, auth.val)]
    /\ UNCHANGED <<system, endpoint, built, revoked, ctrlLock>>
    /\ UNCHANGED <<regVars, callVars, su, ledgerVars, clockVars, auths, nextToken, issued>>

\* token_get_delete, GET: controller.lock().await
TokenGetLock(r) ==
    /\ web[r].pc = "handler"
    /\ web[r].route.kind = "tokenGet"
    /\ ctrlLock = 0
    /\ ctrlLock' = r
    /\ web' = [web EXCEPT ![r].pc = "locked"]
    /\ UNCHANGED <<system, endpoint, built, revoked>>
    /\ UNCHANGED <<regVars, callVars, su, ledgerVars, clockVars, auths, nextToken, issued>>

\* mutant: the System is stored before the probe ran, so a failed probe leaves it cached
SystemDetectPinning(r) ==
    /\ web[r].pc = "locked"
    /\ system = <<>>
    /\ \E stat \in {"exit0", "exit1"} :
        IF web[r].cred \notin Accepted
        THEN /\ web' = [web EXCEPT ![r] = [Failed(r, RejectedError) EXCEPT !.probe = "rejected"]]
             /\ system' = <<[credential |-> web[r].cred, os |-> <<>>]>>
             /\ ctrlLock' = 0
        ELSE IF stat = "exit1"
        THEN /\ web' = [web EXCEPT ![r] = [Failed(r, ExitError) EXCEPT !.probe = "absent"]]
             /\ system' = <<[credential |-> web[r].cred, os |-> <<>>]>>
             /\ ctrlLock' = 0
        ELSE /\ web' = [web EXCEPT ![r].pc = "probed", ![r].probe = "present",
                                   ![r].sys = <<[credential |-> web[r].cred, os |-> <<>>]>>]
             /\ UNCHANGED <<system, ctrlLock>>
    /\ UNCHANGED <<endpoint, built, revoked>>
    /\ UNCHANGED <<regVars, callVars, su, ledgerVars, clockVars, auths, nextToken, issued>>

\* SystemManager::system with self.system = None: System::detect -> Posix::detect runs
\* stat on the required executables with the credential of the call. A rejected
\* credential or a missing executable is the error of the command, returned through `?`.
SystemDetect(r) ==
    /\ web[r].pc = "locked"
    /\ system = <<>>
    /\ \E stat \in {"exit0", "exit1"} :
        IF web[r].cred \notin Accepted
        THEN /\ web' = [web EXCEPT ![r] = [Failed(r, RejectedError) EXCEPT !.probe = "rejected"]]
             /\ ctrlLock' = 0
        ELSE IF stat = "exit1"
        THEN /\ web' = [web EXCEPT ![r] = [Failed(r, ExitError) EXCEPT !.probe = "absent"]]
             /\ ctrlLock' = 0
        ELSE /\ web' = [web EXCEPT ![r].pc = "probed", ![r].probe = "present",
                                   ![r].sys = <<[credential |-> web[r].cred, os |-> <<>>]>>]
             /\ UNCHANGED ctrlLock
    /\ UNCHANGED <<system, endpoint, built, revoked>>
    /\ UNCHANGED <<regVars, callVars, su, ledgerVars, clockVars, auths, nextToken, issued>>

\* mutant: the detected System is cached before its OS detection ran
SystemDetectOsLate(r) ==
    /\ web[r].pc = "probed"
    /\ system' = web[r].sys
    /\ built' = built + 1
    /\ web' = [web EXCEPT ![r].pc = "resolved"]
    /\ UNCHANGED <<endpoint, revoked, ctrlLock>>
    /\ UNCHANGED <<regVars, callVars, su, ledgerVars, clockVars, auths, nextToken, issued>>

\* SystemManager::system, continued: system.detect_os() stores the tag, then the System
\* is cached; an error of the detection drops the System
SystemDetectOs(r) ==
    /\ web[r].pc = "probed"
    /\ \E linux \in BOOLEAN, release \in OsReleases :
        IF ~linux
        THEN /\ web' = [web EXCEPT ![r] = Failed(r, "OsDetectionFailed")]
             /\ ctrlLock' = 0
             /\ UNCHANGED <<system, built>>
        ELSE LET sys == [web[r].sys[1] EXCEPT !.os = <<DetectedOs(release)>>]
             IN /\ system' = <<sys>>
                /\ built' = built + 1
                /\ web' = [web EXCEPT ![r].pc = "resolved", ![r].sys = <<sys>>]
                /\ UNCHANGED ctrlLock
    /\ UNCHANGED <<endpoint, revoked>>
    /\ UNCHANGED <<regVars, callVars, su, ledgerVars, clockVars, auths, nextToken, issued>>

\* mutant: a cached System is replaced when the call passes another credential
SystemCachedPerCredential(r) ==
    /\ web[r].pc = "locked"
    /\ system # <<>>
    /\ system' = <<[system[1] EXCEPT !.credential = web[r].cred]>>
    /\ web' = [web EXCEPT ![r].pc = "resolved", ![r].sys = system']
    /\ UNCHANGED <<endpoint, built, revoked, ctrlLock>>
    /\ UNCHANGED <<regVars, callVars, su, ledgerVars, clockVars, auths, nextToken, issued>>

\* SystemManager::system with self.system = Some: the cached System is returned
SystemCached(r) ==
    /\ web[r].pc = "locked"
    /\ system # <<>>
    /\ web' = [web EXCEPT ![r].pc = "resolved", ![r].sys = system]
    /\ UNCHANGED <<system, endpoint, built, revoked, ctrlLock>>
    /\ UNCHANGED <<regVars, callVars, su, ledgerVars, clockVars, auths, nextToken, issued>>

\* token_get_delete, GET: system.verify_credential() runs /bin/true with the credential
\* stored in the System; then insert_or_replace with the credential of the request
TokenGetVerify(r) ==
    /\ web[r].pc = "resolved"
    /\ web[r].route.kind = "tokenGet"
    /\ IF web[r].sys[1].credential \notin Accepted
       THEN /\ web' = [web EXCEPT ![r] = Failed(r, RejectedError)]
            /\ UNCHANGED <<auths, nextToken, issued>>
       ELSE /\ auths' = InsertOrReplaceList(auths, web[r].cred[1], web[r].cred[2], Token, now)
            /\ nextToken' = nextToken + 1
            /\ issued' = Append(issued, [token |-> Token, username |-> web[r].cred[1],
                                         password |-> web[r].cred[2], at |-> now,
                                         fresh |-> FirstByUser(auths, web[r].cred[1]) = 0])
            /\ web' = [web EXCEPT ![r] = Answered(r, "OK", <<Token>>)]
    /\ ctrlLock' = 0
    /\ UNCHANGED <<system, endpoint, built, revoked>>
    /\ UNCHANGED <<regVars, callVars, su, ledgerVars, clockVars>>

\* token_get_delete, DELETE: lock the Controller, delete the token of the TokenResult
\* extension, answer ACCEPTED when a record was removed and OK otherwise
TokenDelete(r) ==
    /\ web[r].pc = "handler"
    /\ web[r].route.kind = "tokenDelete"
    /\ ctrlLock = 0
    /\ IF web[r].ext = <<>>
       THEN /\ web' = [web EXCEPT ![r] = Failed(r, "RestAuthMissing")]
            /\ UNCHANGED <<auths, revoked>>
       ELSE LET token == web[r].ext[1]
            IN /\ auths' = DeleteList(auths, token)
               /\ IF Len(auths) > Len(auths')
                  THEN /\ web' = [web EXCEPT ![r] = Answered(r, "ACCEPTED", <<>>)]
                       /\ revoked' = revoked \cup {token}
                  ELSE /\ web' = [web EXCEPT ![r] = Answered(r, "OK", <<>>)]
                       /\ UNCHANGED revoked
    /\ UNCHANGED <<system, endpoint, built, ctrlLock>>
    /\ UNCHANGED <<regVars, callVars, su, ledgerVars, clockVars, nextToken, issued>>

\* the response has been sent
Finish(r) ==
    /\ web[r].pc = "done"
    /\ web' = [web EXCEPT ![r] = IdleWeb]
    /\ UNCHANGED <<system, endpoint, built, revoked, ctrlLock>>
    /\ UNCHANGED <<regVars, callVars, su, ledgerVars, clockVars, auths, nextToken, issued>>

\* Controller::new(max_token_expiration, endpoint): no System yet, a TTL above zero
SysInit ==
    /\ system = <<>>
    /\ endpoint \in Endpoints
    /\ web = [r \in Reqs |-> IdleWeb]
    /\ built = 0
    /\ revoked = {}
    /\ auths = <<>>
    /\ duration = MaxTTL
    /\ now = 0
    /\ nextToken = 1
    /\ issued = <<>>
    /\ lastGet = NoCall

InitCtrl == SysInit /\ TaskInit /\ RegIdle /\ CallIdle

NextCtrl ==
    \/ \E r \in Reqs : TokenArrive(r)
    \/ \E r \in Reqs : Auth(r)
    \/ \E r \in Reqs : TokenGetLock(r)
    \/ \E r \in Reqs : SystemDetect(r)
    \/ \E r \in Reqs : SystemDetectOs(r)
    \/ \E r \in Reqs : SystemCached(r)
    \/ \E r \in Reqs : TokenGetVerify(r)
    \/ \E r \in Reqs : TokenDelete(r)
    \/ \E r \in Reqs : Finish(r)

SpecCtrl == InitCtrl /\ [][NextCtrl]_vars

-----------------------------------------------------------------------------
(* Requests without an Authorization header (rest.rs, auth and the handlers) *)

\* the routes of Rest::routes a request can ask for: /token GET and DELETE, /tasks,
\* POST /apps/<name>, GET /files (help) and /files/<path>
Routes == {"tokenGet", "tokenDelete", "tasks", "app", "filesHelp", "file"}

\* what request.body_mut().data() and serde_json::from_slice make of the body
Bodies == {"missing", "unparsable", "parsed"}

\* a request arrives without an Authorization header: the middleware takes its else
\* branch and is about to call next.run(request)
NoHeaderArrive(r) ==
    /\ web[r].pc = "idle"
    /\ \E kind \in Routes :
        web' = [web EXCEPT ![r] = [IdleWeb EXCEPT !.pc = "next", !.route = TokenRoute(kind)]]
    /\ UNCHANGED <<system, endpoint, built, revoked, ctrlLock>>
    /\ UNCHANGED <<regVars, callVars, su, ledgerVars, clockVars, auths, nextToken, issued>>

\* mutant: GET /token does not ask for the UsernamePassword extension and goes on to
\* lock the Controller and resolve the System
NoHeaderHandlerResolving(r) ==
    /\ web[r].pc = "next"
    /\ ctrlLock = 0
    /\ IF web[r].route.kind = "tokenGet"
       THEN /\ web' = [web EXCEPT ![r].pc = "locked"]
            /\ ctrlLock' = r
       ELSE /\ web' = [web EXCEPT ![r] = [Failed(r, "RestAuthMissing") EXCEPT !.pc = "returned"]]
            /\ UNCHANGED ctrlLock
    /\ UNCHANGED <<system, endpoint, built, revoked>>
    /\ UNCHANGED <<regVars, callVars, su, ledgerVars, clockVars, auths, nextToken, issued>>

\* next.run(request): the handler of the route runs on a request that carries no
\* UsernamePassword and no TokenResult extension. files_help locks the Controller and
\* returns the help of the registry; token DELETE locks the Controller before it asks for
\* the extension; app_post reads and parses the body first; every other handler asks for
\* the extension first. The guard is dropped as the handler returns.
NoHeaderHandler(r) ==
    /\ web[r].pc = "next"
    /\ LET kind == web[r].route.kind
       IN /\ kind \in {"filesHelp", "tokenDelete"} => ctrlLock = 0
          /\ \E body \in Bodies :
               LET e == IF kind # "app" \/ body = "parsed" THEN "RestAuthMissing"
                        ELSE IF body = "missing" THEN "AppBodyMissing" ELSE "SerdeJson"
               IN web' = [web EXCEPT ![r] =
                            IF kind = "filesHelp"
                            THEN [Answered(r, "OK", <<"help">>) EXCEPT !.pc = "returned"]
                            ELSE [Failed(r, e) EXCEPT !.pc = "returned"]]
    /\ UNCHANGED <<system, endpoint, built, revoked, ctrlLock>>
    /\ UNCHANGED <<regVars, callVars, su, ledgerVars, clockVars, auths, nextToken, issued>>

\* the middleware builds the response: the WWW-Authenticate header, the status
\* UNAUTHORIZED and the body of the handler's response
NoHeaderRespond(r) ==
    /\ web[r].pc = "returned"
    /\ web' = [web EXCEPT ![r].pc = "done", ![r].status = "UNAUTHORIZED"]
    /\ UNCHANGED <<system, endpoint, built, revoked, ctrlLock>>
    /\ UNCHANGED <<regVars, callVars, su, ledgerVars, clockVars, auths, nextToken, issued>>

\* the token routes with requests that carry a header and requests that carry none
NextNoHeader ==
    \/ NextCtrl
    \/ \E r \in Reqs : NoHeaderArrive(r)
    \/ \E r \in Reqs : NoHeaderHandler(r)
    \/ \E r \in Reqs : NoHeaderRespond(r)

SpecNoHeader == InitCtrl /\ [][NextNoHeader]_vars

-----------------------------------------------------------------------------
(* The file handlers and their lookup by path (files/mod.rs, controller.rs) *)

\* a path is its sequence of characters
CronDir == <<"/", "e", "t", "c", "/", "c", "r", "o", "n", ".", "d", "/">>

\* the last n characters of a sequence
Suffix(value, n) == SubSeq(value, Len(value) - n + 1, Len(value))

\* value has the characters of part somewhere in it
Contains(value, part) ==
    \E i \in 1..(Len(value) - Len(part) + 1) : SubSeq(value, i, i + Len(part) - 1) = part

\* Regex::is_match for the regular expressions of the registry:
\*   any:   .*                              (files/text.rs)
\*   crond: /etc/cron\.d/.*                 (files/etc/crontab.rs)
\*   json:  ^.*.(json|JSON)$                (files/json.rs)
\*   yaml:  ^.*.(yaml|YAML|yml|YML)$        (files/yaml.rs)
RegexIsMatch(regex, value) ==
    CASE regex = "any" -> TRUE
      [] regex = "crond" -> Contains(value, CronDir)
      [] regex = "json" ->
            Len(value) >= 5 /\ Suffix(value, 4) \in {<<"j", "s", "o", "n">>, <<"J", "S", "O", "N">>}
      [] regex = "yaml" ->
            \/ Len(value) >= 5 /\ Suffix(value, 4) \in {<<"y", "a", "m", "l">>, <<"Y", "A", "M", "L">>}
            \/ Len(value) >= 4 /\ Suffix(value, 3) \in {<<"y", "m", "l">>, <<"Y", "M", "L">>}
      [] OTHER -> FALSE

\* the registry in registration order: Controller::new pushes the builders in this order;
\* each pattern is the one its builder declares
Files ==
    <<[name |-> "VersionBuilder", patterns |-> <<
         [kind |-> "path", regex |-> None, path |-> <<"/", "p", "r", "o", "c", "/", "v", "e", "r", "s", "i", "o", "n">>, compatibility |-> <<"LinuxAny">>]>>],
      [name |-> "UptimeBuilder", patterns |-> <<
         [kind |-> "path", regex |-> None, path |-> <<"/", "p", "r", "o", "c", "/", "u", "p", "t", "i", "m", "e">>, compatibility |-> <<"LinuxAny">>]>>],
      [name |-> "SwapsBuilder", patterns |-> <<
         [kind |-> "path", regex |-> None, path |-> <<"/", "p", "r", "o", "c", "/", "s", "w", "a", "p", "s">>, compatibility |-> <<"LinuxAny">>]>>],
      [name |-> "PartitionsBuilder", patterns |-> <<
         [kind |-> "path", regex |-> None, path |-> <<"/", "p", "r", "o", "c", "/", "p", "a", "r", "t", "i", "t", "i", "o", "n", "s">>, compatibility |-> <<"LinuxAny">>]>>],
      [name |-> "MountsBuilder", patterns |-> <<
         [kind |-> "path", regex |-> None, path |-> <<"/", "p", "r", "o", "c", "/", "m", "o", "u", "n", "t", "s">>, compatibility |-> <<"LinuxAny">>]>>],
      [name |-> "MeminfoBuilder", patterns |-> <<
         [kind |-> "path", regex |-> None, path |-> <<"/", "p", "r", "o", "c", "/", "m", "e", "m", "i", "n", "f", "o">>, compatibility |-> <<"LinuxAny">>]>>],
      [name |-> "MdstatBuilder", patterns |-> <<
         [kind |-> "path", regex |-> None, path |-> <<"/", "p", "r", "o", "c", "/", "m", "d", "s", "t", "a", "t">>, compatibility |-> <<"LinuxAny">>]>>],
      [name |-> "LoadAvgBuilder", patterns |-> <<
         [kind |-> "path", regex |-> None, path |-> <<"/", "p", "r", "o", "c", "/", "l", "o", "a", "d", "a", "v", "g">>, compatibility |-> <<"LinuxAny">>]>>],
      [name |-> "FilesystemBuilder", patterns |-> <<
         [kind |-> "path", regex |-> None, path |-> <<"/", "p", "r", "o", "c", "/", "f", "i", "l", "e", "s", "y", "s", "t", "e", "m", "s">>, compatibility |-> <<"LinuxAny">>]>>],
      [name |-> "CryptoBuilder", patterns |-> <<
         [kind |-> "path", regex |-> None, path |-> <<"/", "p", "r", "o", "c", "/", "c", "r", "y", "p", "t", "o">>, compatibility |-> <<"LinuxAny">>]>>],
      [name |-> "CpuinfoBuilder", patterns |-> <<
         [kind |-> "path", regex |-> None, path |-> <<"/", "p", "r", "o", "c", "/", "c", "p", "u", "i", "n", "f", "o">>, compatibility |-> <<"LinuxAny">>]>>],
      [name |-> "PasswdBuilder", patterns |-> <<
         [kind |-> "path", regex |-> None, path |-> <<"/", "e", "t", "c", "/", "p", "a", "s", "s", "w", "d">>, compatibility |-> <<"LinuxAny">>]>>],
      [name |-> "OsReleaseBuilder", patterns |-> <<
         [kind |-> "path", regex |-> None, path |-> <<"/", "e", "t", "c", "/", "o", "s", "-", "r", "e", "l", "e", "a", "s", "e">>, compatibility |-> <<"LinuxUbuntu">>]>>],
      [name |-> "HostsBuilder", patterns |-> <<
         [kind |-> "path", regex |-> None, path |-> <<"/", "e", "t", "c", "/", "h", "o", "s", "t", "s">>, compatibility |-> <<"LinuxAny">>]>>],
      [name |-> "HostnameBuilder", patterns |-> <<
         [kind |-> "path", regex |-> None, path |-> <<"/", "e", "t", "c", "/", "h", "o", "s", "t", "n", "a", "m", "e">>, compatibility |-> <<"LinuxAny">>]>>],
      [name |-> "FstabBuilder", patterns |-> <<
         [kind |-> "path", regex |-> None, path |-> <<"/", "e", "t", "c", "/", "f", "s", "t", "a", "b">>, compatibility |-> <<"LinuxAny">>]>>],
      [name |-> "CrontabBuilder", patterns |-> <<
         [kind |-> "path", regex |-> None, path |-> <<"/", "e", "t", "c", "/", "c", "r", "o", "n", "t", "a", "b">>, compatibility |-> <<"LinuxAny">>],
         [kind |-> "regex", regex |-> "crond", path |-> <<>>, compatibility |-> <<"LinuxAny">>]>>],
      [name |-> "YamlBuilder", patterns |-> <<
         [kind |-> "regex", regex |-> "yaml", path |-> <<>>, compatibility |-> <<"LinuxAny">>]>>],
      [name |-> "JsonBuilder", patterns |-> <<
         [kind |-> "regex", regex |-> "json", path |-> <<>>, compatibility |-> <<"LinuxAny">>]>>],
      [name |-> "TextBuilder", patterns |-> <<
         [kind |-> "regex", regex |-> "any", path |-> <<>>, compatibility |-> <<"LinuxAny">>]>>]>>

\* a builder whose patterns carry different OS tags
SplitBuilder ==
    [name |-> "SplitBuilder", patterns |-> <<
         [kind |-> "path", regex |-> None, path |-> <<"/", "e", "t", "c", "/", "o", "s", "-", "r", "e", "l", "e", "a", "s", "e">>, compatibility |-> <<"LinuxUbuntu">>],
         [kind |-> "path", regex |-> None, path |-> <<"/", "e", "t", "c", "/", "h", "o", "s", "t", "s">>, compatibility |-> <<"LinuxDebian">>]>>]

\* the builders FileBuilder::match is applied to: the registry and SplitBuilder
Builders == Files \o <<SplitBuilder>>

\* the request paths: exact paths of the registry, a cron.d entry, a yaml file, a path
\* that ends in json, and an unmanaged text file
Paths ==
    {<<"/", "p", "r", "o", "c", "/", "v", "e", "r", "s", "i", "o", "n">>,
     <<"/", "e", "t", "c", "/", "c", "r", "o", "n", "t", "a", "b">>,
     <<"/", "e", "t", "c", "/", "c", "r", "o", "n", ".", "d", "/", "j", "o", "b">>,
     <<"/", "e", "t", "c", "/", "o", "s", "-", "r", "e", "l", "e", "a", "s", "e">>,
     <<"/", "e", "t", "c", "/", "h", "o", "s", "t", "s">>,
     <<"/", "s", "r", "v", "/", "a", ".", "y", "m", "l">>,
     <<"/", "j", "s", "o", "n">>,
     <<"/", "s", "r", "v", "/", "n", "o", "t", "e", "s">>}

\* FileMatchPatternType: Path compares for equality, Regex searches
PathMatches(pattern, value) ==
    IF pattern.kind = "path" THEN pattern.path = value
    ELSE RegexIsMatch(pattern.regex, value)

\* mutant: the pattern is compared without looking at the OS tags
PatternMatchAnyOs(pattern, value, os) == PathMatches(pattern, value)

\* FileMatchPattern::match
PatternMatch(pattern, value, os) ==
    IF \E i \in 1..Len(pattern.compatibility) : Compatible(pattern.compatibility[i], os)
    THEN IF pattern.kind = "path" THEN pattern.path = value
         ELSE RegexIsMatch(pattern.regex, value)
    ELSE FALSE

\* FileBuilder::match: Some(File::new(value)) for the first pattern that matches, or None
RECURSIVE MatchFrom(_, _, _, _)
MatchFrom(patterns, i, value, os) ==
    IF i > Len(patterns) THEN <<>>
    ELSE IF PatternMatch(patterns[i], value, os) THEN <<value>>
    ELSE MatchFrom(patterns, i + 1, value, os)

FileBuilderMatch(builder, value, os) == MatchFrom(builder.patterns, 1, value, os)

\* FileBuilders::match
FileBuildersMatch(builder, value, os) == FileBuilderMatch(builder, value, os) # <<>>

\* Iterator::find from position i
RECURSIVE FindFrom(_, _, _, _)
FindFrom(files, i, value, os) ==
    IF i > Len(files) THEN 0
    ELSE IF FileBuildersMatch(files[i], value, os) THEN i
    ELSE FindFrom(files, i + 1, value, os)

\* mutant: the registry is searched from its end
FileBuildersMutByMatchLast(files, pattern, sys) ==
    LET os == SystemOs(sys)
        hits == {i \in 1..Len(files) : FileBuildersMatch(files[i], pattern, os.val)}
    IN IF ~os.ok THEN os
       ELSE IF hits = {} THEN Err("FilesNotMatchedByPattern")
       ELSE Ok(files[CHOOSE i \in hits : \A j \in hits : j <= i].name)

\* Controller::file_builders_mut_by_match: the name of the builder found, or the error
FileBuildersMutByMatch(files, pattern, sys) ==
    LET os == SystemOs(sys)
    IN IF ~os.ok THEN os
       ELSE LET i == FindFrom(files, 1, pattern, os.val)
            IN IF i = 0 THEN Err("FilesNotMatchedByPattern") ELSE Ok(files[i].name)

\* a request path, the OS tag of the cached System and a builder are given
RegInit ==
    /\ query \in [path : Paths, os : Os, builder : 1..Len(Builders)]
    /\ matched = <<>>
    /\ found = <<>>

\* builder.match(path, os) is called
FileMatchCall ==
    /\ matched = <<>>
    /\ matched' = <<FileBuildersMatch(Builders[query.builder], query.path, query.os)>>
    /\ UNCHANGED <<query, found>>
    /\ UNCHANGED <<taskVars, authVars, sysVars, callVars, su>>

\* file_builders_mut_by_match(path, system) is called with the System of that OS tag
ResolveByPathCall ==
    /\ found = <<>>
    /\ found' = <<FileBuildersMutByMatch(Files, query.path,
                                         [credential |-> NoCred, os |-> <<query.os>>])>>
    /\ UNCHANGED <<query, matched>>
    /\ UNCHANGED <<taskVars, authVars, sysVars, callVars, su>>

InitFiles == RegInit /\ TaskInit /\ AuthIdle /\ SysIdle /\ CallIdle

NextFiles == FileMatchCall \/ ResolveByPathCall

SpecFiles == InitFiles /\ [][NextFiles]_vars

-----------------------------------------------------------------------------
(* The app and file routes (rest.rs, apps/mod.rs) *)

\* the apps of the registry that requests name, with the OS tags they declare
SupportedOs(name) == <<"LinuxAny">>

\* the request bodies of POST /app/<name>: the two of Items and an app that is not registered
AppBodies == Items \cup {[name |-> "wc", input |-> "valid"]}

\* the file a GET or DELETE /files/<path> request names
FilePaths == {<<"/", "e", "t", "c", "/", "h", "o", "s", "t", "s">>}

\* Controller::app_mut(name).is_some()
AppFound(name) == name \in AppNames

\* mutant: every app is taken to be compatible
AppCompatibleAlways(name, os) == TRUE

\* AppBuilder::compatible
AppCompatible(name, os) ==
    \E i \in 1..Len(SupportedOs(name)) : Compatible(SupportedOs(name)[i], os)

\* requests in flight that will still call new_task
Scheduling == Cardinality({r \in Reqs : web[r].route.kind = "app" /\ web[r].route.async
                                          /\ web[r].pc \notin {"idle", "done"}})

\* a POST /app/<name> request (?async=true or not) or a GET/DELETE /files/<path> request
\* arrives with a Basic header
AppArrive(r) ==
    /\ web[r].pc = "idle"
    /\ \E cred \in Credentials :
        \/ \E body \in AppBodies, async \in BOOLEAN :
              /\ async => last_id + Scheduling < MaxTasks
              /\ web' = [web EXCEPT ![r] =
                            [IdleWeb EXCEPT !.pc = "auth",
                                            !.header = Basic(cred[1], cred[2]),
                                            !.route = [kind |-> "app", name |-> body.name,
                                                       async |-> async, input |-> body.input,
                                                       path |-> <<>>]]]
        \/ \E method \in {"GET", "DELETE"}, path \in FilePaths :
              web' = [web EXCEPT ![r] =
                         [IdleWeb EXCEPT !.pc = "auth",
                                         !.header = Basic(cred[1], cred[2]),
                                         !.route = [kind |-> "file", name |-> method,
                                                    async |-> FALSE, input |-> None,
                                                    path |-> path]]]
    /\ UNCHANGED <<system, endpoint, built, revoked, ctrlLock>>
    /\ UNCHANGED <<regVars, callVars, su, ledgerVars, clockVars, auths, nextToken, issued>>

\* app_post, files_get_post_delete: `let (os, system) = { controller.lock().await ...`
SystemLock(r) ==
    /\ web[r].pc = "handler"
    /\ web[r].route.kind \in {"app", "file"}
    /\ ctrlLock = 0
    /\ ctrlLock' = r
    /\ web' = [web EXCEPT ![r].pc = "locked"]
    /\ UNCHANGED <<system, endpoint, built, revoked>>
    /\ UNCHANGED <<regVars, callVars, su, ledgerVars, clockVars, auths, nextToken, issued>>

\* the end of that block: the System is cloned, its OS tag read, the guard dropped
SystemUnlock(r) ==
    /\ web[r].pc = "resolved"
    /\ web[r].route.kind \in {"app", "file"}
    /\ ctrlLock' = 0
    /\ IF SystemOs(web[r].sys[1]).ok
       THEN web' = [web EXCEPT ![r].pc = "cloned"]
       ELSE web' = [web EXCEPT ![r] = Failed(r, "OsDetection")]
    /\ UNCHANGED <<system, endpoint, built, revoked>>
    /\ UNCHANGED <<regVars, callVars, su, ledgerVars, clockVars, auths, nextToken, issued>>

\* app_post: lock the Controller again, find the app by name, test compatible(os); then
\* start new_task (async) or the handler (sync) with the guard held
AppLookup(r) ==
    /\ web[r].pc = "cloned"
    /\ web[r].route.kind = "app"
    /\ ctrlLock = 0
    /\ LET name == web[r].route.name
           os == SystemOs(web[r].sys[1]).val
       IN IF ~AppFound(name)
          THEN /\ web' = [web EXCEPT ![r] = [Failed(r, "AppNotFound") EXCEPT !.looked = TRUE]]
               /\ UNCHANGED ctrlLock
          ELSE IF ~AppCompatible(name, os)
          THEN /\ web' = [web EXCEPT ![r] = [Failed(r, "AppIncompatible") EXCEPT !.looked = TRUE]]
               /\ UNCHANGED ctrlLock
          ELSE IF web[r].route.async
          THEN /\ web' = [web EXCEPT ![r].pc = "scheduling", ![r].looked = TRUE]
               /\ ctrlLock' = r
          ELSE /\ web' = [web EXCEPT ![r].pc = "running", ![r].looked = TRUE, ![r].ran = TRUE]
               /\ ctrlLock' = r
    /\ UNCHANGED <<system, endpoint, built, revoked>>
    /\ UNCHANGED <<regVars, callVars, su, ledgerVars, clockVars, auths, nextToken, issued>>

\* app_post, async: new_task under the ledger lock (push the Created record, spawn the
\* unit, return the snapshot); the response is the snapshot
AppNewTask(r) ==
    /\ web[r].pc = "scheduling"
    /\ ledgerLock = Free
    /\ LET id == NextId
           task == NewTask(id, [name |-> web[r].route.name, input |-> web[r].route.input])
       IN /\ tasks' = Append(tasks, task)
          /\ last_id' = id
          /\ unit' = [unit EXCEPT ![id] = [pc |-> "spawned", result |-> Err(None)]]
          /\ web' = [web EXCEPT ![r] = Answered(r, "OK", <<task>>)]
    /\ ctrlLock' = 0
    /\ UNCHANGED <<ledgerLock, req>>
    /\ UNCHANGED <<system, endpoint, built, revoked>>
    /\ UNCHANGED <<regVars, callVars, su, clockVars, auths, nextToken, issued>>

\* app_post, sync: app_builder.run(value, &system).await returns
AppRunReturn(r) ==
    /\ web[r].pc = "running"
    /\ \E transport \in Transports :
        LET result == AppRun(web[r].route.name, web[r].route.input, transport)
        IN IF result.ok
           THEN web' = [web EXCEPT ![r] = Answered(r, "OK", <<result.val>>)]
           ELSE web' = [web EXCEPT ![r] = Failed(r, result.val)]
    /\ ctrlLock' = 0
    /\ UNCHANGED <<system, endpoint, built, revoked>>
    /\ UNCHANGED <<regVars, callVars, su, ledgerVars, clockVars, auths, nextToken, issued>>

\* files_get_post_delete on a regular file: lock the Controller, find the builder by
\* match, then start file.read or file.delete with the guard held
FileLookup(r) ==
    /\ web[r].pc = "cloned"
    /\ web[r].route.kind = "file"
    /\ ctrlLock = 0
    /\ LET file == FileBuildersMutByMatch(Files, web[r].route.path, web[r].sys[1])
       IN IF ~file.ok
          THEN /\ web' = [web EXCEPT ![r] = [Failed(r, file.val) EXCEPT !.looked = TRUE]]
               /\ UNCHANGED ctrlLock
          ELSE /\ web' = [web EXCEPT ![r].pc = "reading", ![r].looked = TRUE, ![r].ran = TRUE]
               /\ ctrlLock' = r
    /\ UNCHANGED <<system, endpoint, built, revoked>>
    /\ UNCHANGED <<regVars, callVars, su, ledgerVars, clockVars, auths, nextToken, issued>>

\* file.read(&p, &system) or file.delete(&p, &system) returns
FileReturn(r) ==
    /\ web[r].pc = "reading"
    /\ \E transport \in Transports :
        IF transport = "exit1"
        THEN web' = [web EXCEPT ![r] = Failed(r, ExitError)]
        ELSE web' = [web EXCEPT ![r] =
                        IF web[r].route.name = "DELETE"
                        THEN Answered(r, "ACCEPTED", <<>>)
                        ELSE Answered(r, "OK", <<"content">>)]
    /\ ctrlLock' = 0
    /\ UNCHANGED <<system, endpoint, built, revoked>>
    /\ UNCHANGED <<regVars, callVars, su, ledgerVars, clockVars, auths, nextToken, issued>>

\* a Controller for the local endpoint. The spawned units take the steps of Spec; they
\* touch neither the Controller nor a request and are left to rest here.
InitApp == TaskInit /\ AuthIdle /\ SysIdle /\ RegIdle /\ CallIdle

NextApp ==
    \/ \E r \in Reqs : AppArrive(r)
    \/ \E r \in Reqs : Auth(r)
    \/ \E r \in Reqs : SystemLock(r)
    \/ \E r \in Reqs : SystemDetect(r)
    \/ \E r \in Reqs : SystemDetectOs(r)
    \/ \E r \in Reqs : SystemCached(r)
    \/ \E r \in Reqs : SystemUnlock(r)
    \/ \E r \in Reqs : AppLookup(r)
    \/ \E r \in Reqs : AppNewTask(r)
    \/ \E r \in Reqs : AppRunReturn(r)
    \/ \E r \in Reqs : FileLookup(r)
    \/ \E r \in Reqs : FileReturn(r)
    \/ \E r \in Reqs : Finish(r)

SpecApp == InitApp /\ [][NextApp]_vars

-----------------------------------------------------------------------------
(* The file handlers' read, write and delete (files/mod.rs) *)

\* a File that keeps every default of the trait: it overrides neither read nor write
DefaultBuilder ==
    [name |-> "DefaultBuilder", patterns |-> <<
         [kind |-> "regex", regex |-> "any", path |-> <<>>, compatibility |-> <<"LinuxAny">>]>>]

\* the handlers read, write and delete are called on: the registry and DefaultBuilder
Handlers == Files \o <<DefaultBuilder>>

\* the builders whose File implements read: every builder of the registry
ReadOverrides == {Files[i].name : i \in 1..Len(Files)}

\* the builders whose File implements write
WriteOverrides == {"HostnameBuilder", "FstabBuilder", "PasswdBuilder", "CrontabBuilder",
                   "HostsBuilder", "TextBuilder", "JsonBuilder", "YamlBuilder"}

\* FileBuilder::CAPABILITIES
Capabilities(name) ==
    IF name \in WriteOverrides THEN {"Read", "Write", "Delete"}
    ELSE IF name \in ReadOverrides THEN {"Read"}
    ELSE {}

\* what a call returned and the calls it made on the System, in order
Returned(result, calls) == [result |-> result, calls |-> calls]

\* mutant: delete is refused unless the handler declares the Delete capability
FileDeleteDeclared(name, transport) ==
    IF "Delete" \notin Capabilities(name) THEN Returned(Err("NotCapable(Delete)"), <<>>)
    ELSE Returned(IF transport = "exit0" THEN Ok("unit") ELSE Err(ExitError), <<"delete">>)

\* FileBuilders::delete: system.delete(path), for every builder, matched or not
FileDelete(name, transport) ==
    Returned(IF transport = "exit0" THEN Ok("unit") ELSE Err(ExitError), <<"delete">>)

\* File::read: the default of the trait, or the override (read the file, parse it)
FileRead(name, transport) ==
    IF name \notin ReadOverrides THEN Returned(Err("NotCapable(Read)"), <<>>)
    ELSE Returned(IF transport = "exit0" THEN Ok("output") ELSE Err(ExitError), <<"read">>)

\* File::write: the default of the trait, or the override (deserialize the input, then
\* write; hosts and passwd read the file first to merge the input into it)
FileWrite(name, input, transport) ==
    IF name \notin WriteOverrides THEN Returned(Err("NotCapable(Write)"), <<>>)
    ELSE IF input = "malformed" THEN Returned(Err("Deserialize"), <<>>)
    ELSE IF name \in {"HostsBuilder", "PasswdBuilder"}
    THEN IF transport = "exit0" THEN Returned(Ok("unit"), <<"read", "write">>)
                                ELSE Returned(Err(ExitError), <<"read">>)
    ELSE Returned(IF transport = "exit0" THEN Ok("unit") ELSE Err(ExitError), <<"write">>)

\* mutant: read and write of a handler do not test its patterns against the path
FileBuildersOpUnmatched(op, builder, path, sys, input, transport) ==
    IF op = "delete" THEN FileDelete(builder.name, transport)
    ELSE IF ~SystemOs(sys).ok THEN Returned(Err("OsDetection"), <<>>)
    ELSE IF op = "read" THEN FileRead(builder.name, transport)
    ELSE FileWrite(builder.name, input, transport)

\* FileBuilders::read / write / delete on the System sys
FileBuildersOp(op, builder, path, sys, input, transport) ==
    IF op = "delete" THEN FileDelete(builder.name, transport)
    ELSE IF ~SystemOs(sys).ok THEN Returned(Err("OsDetection"), <<>>)
    ELSE IF ~FileBuildersMatch(builder, path, SystemOs(sys).val)
    THEN Returned(Err("FilesNotMatched"), <<>>)
    ELSE IF op = "read" THEN FileRead(builder.name, transport)
    ELSE FileWrite(builder.name, input, transport)

\* the paths the handlers are called with
HandlerPaths ==
    {<<"/", "p", "r", "o", "c", "/", "v", "e", "r", "s", "i", "o", "n">>,
     <<"/", "e", "t", "c", "/", "h", "o", "s", "t", "s">>,
     <<"/", "s", "r", "v", "/", "n", "o", "t", "e", "s">>}

\* the arguments of a read, write or delete of a handler
FileArgs ==
    [op : {"read", "write", "delete"}, builder : 1..Len(Handlers), path : HandlerPaths,
     os : {"LinuxUbuntuFocal", "Unknown"}, input : Inputs, transport : Transports]

\* a handler's read, write or delete is called
FileOpCall ==
    /\ call.fn = "file"
    /\ answer = <<>>
    /\ answer' = <<FileBuildersOp(call.arg.op, Handlers[call.arg.builder], call.arg.path,
                                  [credential |-> NoCred, os |-> <<call.arg.os>>],
                                  call.arg.input, call.arg.transport)>>
    /\ UNCHANGED <<call, su>>
    /\ UNCHANGED <<taskVars, authVars, sysVars, regVars>>

\* the handler names a request can select: those of the registry and one that is not
\* registered. A handler is named here by its builder type; its NAME constant ("text" for
\* TextBuilder) is unique to it in the same way.
HandlerNames == {Files[i].name : i \in 1..Len(Files)} \cup {"invalid"}

\* Controller::file_builders_mut(name): the first builder of that name
FileBuildersMut(files, name) ==
    IF \E i \in 1..Len(files) : files[i].name = name
    THEN Ok(files[CHOOSE i \in 1..Len(files) :
                    /\ files[i].name = name
                    /\ \A j \in 1..(i - 1) : files[j].name # name])
    ELSE Err("FilesNotMatchedByName")

\* files_get_post_delete with ?name=<name> on the path of a regular file: the builder is
\* looked up by name, then read, write or delete is called on it
FilesByName(op, name, path, sys, input, transport) ==
    LET file == FileBuildersMut(Files, name)
    IN IF ~file.ok THEN Returned(Err(file.val), <<>>)
       ELSE FileBuildersOp(op, file.val, path, sys, input, transport)

FilesByNameArgs ==
    [op : {"read", "write", "delete"}, name : HandlerNames, path : HandlerPaths,
     os : {"LinuxUbuntuFocal", "Unknown"}, input : Inputs, transport : Transports]

\* a GET, POST or DELETE /files/<path>?name=<name> request reaches the lookup
FilesByNameCall ==
    /\ call.fn = "file_by_name"
    /\ answer = <<>>
    /\ answer' = <<FilesByName(call.arg.op, call.arg.name, call.arg.path,
                               [credential |-> NoCred, os |-> <<call.arg.os>>],
                               call.arg.input, call.arg.transport)>>
    /\ UNCHANGED <<call, su>>
    /\ UNCHANGED <<taskVars, authVars, sysVars, regVars>>

-----------------------------------------------------------------------------
(* The registered apps and their typed input (apps/*.rs) *)

\* app_builders!: the five apps the Controller registers
RegisteredApps == {"ls", "sh", "touch", "uname", "wget"}

\* the typed output of a successful run
TypedOutput(name) ==
    CASE name = "ls" -> "entries"
      [] name = "sh" -> "stdout"
      [] name = "uname" -> "uname"
      [] OTHER -> "unit"

\* App::run of each app: ls, sh, touch and wget deserialize the untyped input into their
\* typed input and then run their command; uname (Input = ()) ignores its input
AppBuildersRun(name, input, transport) ==
    IF name # "uname" /\ input = "malformed" THEN Returned(Err("Deserialize"), <<>>)
    ELSE Returned(IF transport = "exit0" THEN Ok(TypedOutput(name)) ELSE Err(ExitError),
                  <<"run_args">>)

\* the arguments of a run of an app
AppArgs == [name : RegisteredApps, input : Inputs, transport : Transports]

\* an app is run
AppRunCall ==
    /\ call.fn = "app"
    /\ answer = <<>>
    /\ answer' = <<AppBuildersRun(call.arg.name, call.arg.input, call.arg.transport)>>
    /\ UNCHANGED <<call, su>>
    /\ UNCHANGED <<taskVars, authVars, sysVars, regVars>>

-----------------------------------------------------------------------------
(* Os::compatible on every pair of three tags (system/os.rs) *)

\* the tags a match arm of Os::compatible lists for a family tag
Listed(family) ==
    CASE family = "LinuxAny" ->
           {"LinuxArchlinux", "LinuxFedora", "LinuxOpenSusLeap", "LinuxDebian", "LinuxUbuntu"}
               \cup UbuntuReleases \cup DebianReleases
      [] family = "LinuxUbuntu" -> {"LinuxAny"} \cup UbuntuReleases
      [] family = "LinuxDebian" -> {"LinuxAny"} \cup DebianReleases
      [] OTHER -> {}

\* three tags a, b, c
OsArgs == [a : Os, b : Os, c : Os]

\* compatible is called on the pairs of the three tags
CompatibleCall ==
    /\ call.fn = "compatible"
    /\ answer = <<>>
    /\ answer' = <<[aa |-> Compatible(call.arg.a, call.arg.a),
                    ab |-> Compatible(call.arg.a, call.arg.b),
                    ba |-> Compatible(call.arg.b, call.arg.a),
                    bc |-> Compatible(call.arg.b, call.arg.c),
                    ac |-> Compatible(call.arg.a, call.arg.c)]>>
    /\ UNCHANGED <<call, su>>
    /\ UNCHANGED <<taskVars, authVars, sysVars, regVars>>

-----------------------------------------------------------------------------
(* Posix::run_user and Posix::run_ssh: from the exit of the command to the result *)

\* what the command wrote to stderr: plain text, text behind the "Password: " prompt of
\* su, the two messages of su about the credential, or bytes that are not UTF-8
Stderrs == {"plain", "prefixed", "auth failure", "no such user", "not utf8"}

\* an error of run: its variant, and the exit code and stderr text it carries if any
RunError(name, code, stderr) == [name |-> name, code |-> code, stderr |-> stderr]

\* Posix::run_user after wait_with_output: exit is <<code>>, or <<>> when a signal ended
\* the child (ExitStatus::code() is None)
RunUser(exit, stderr) ==
    IF exit = <<0>> THEN Ok("stdout")
    ELSE IF stderr = "not utf8" THEN Err(RunError("FromUtf8", <<>>, <<>>))
    ELSE IF stderr = "auth failure" THEN Err(RunError("RunUserPasswordInvalid", <<>>, <<>>))
    ELSE IF stderr = "no such user" THEN Err(RunError("RunUserUserInvalid", <<>>, <<>>))
    ELSE Err(RunError("RunUser", IF exit = <<>> THEN <<1>> ELSE exit,
                      IF stderr = "prefixed" THEN <<"plain">> ELSE <<stderr>>))

\* Posix::run_ssh after client.execute: stderr arrives as a String
RunSsh(exit, stderr) ==
    IF exit[1] > 0 THEN Err(RunError("RunSsh", exit, <<stderr>>)) ELSE Ok("stdout")

\* PlatformActions::run_args: run_ssh with an endpoint, run_user without
RunArgs(backend, exit, stderr) ==
    IF backend = "ssh" THEN RunSsh(exit, stderr) ELSE RunUser(exit, stderr)

\* the exits of a command: on ssh an exit status always arrives and stderr is text
Exits ==
    {a \in [backend : Endpoints, exit : {<<>>, <<0>>, <<1>>, <<2>>}, stderr : Stderrs] :
        a.backend = "ssh" => (a.exit # <<>> /\ a.stderr # "not utf8")}

\* run_args is called and the command ends
RunArgsCall ==
    /\ call.fn = "run_args"
    /\ answer = <<>>
    /\ answer' = <<RunArgs(call.arg.backend, call.arg.exit, call.arg.stderr)>>
    /\ UNCHANGED <<call, su>>
    /\ UNCHANGED <<taskVars, authVars, sysVars, regVars>>

-----------------------------------------------------------------------------
(* Posix::detect_os: from /proc/version and /etc/os-release to the OS tag *)

\* /proc/version: cannot be read, does not parse as a Version, parses with a version
\* text without "Linux", or parses with one that contains "Linux"
VersionTexts == {"unreadable", "unparsable", "other", "linux"}

\* /etc/os-release: whether it can be read, whether it has a NAME= line, its ID= value and
\* its VERSION_CODENAME= value (Option: <<>> when the line is missing)
Descriptors ==
    [readable : BOOLEAN, name : BOOLEAN,
     id : {<<>>, <<"ubuntu">>, <<"debian">>, <<"arch">>, <<"fedora">>, <<"linux">>},
     version_codename : {<<>>, <<"focal">>, <<"bookworm">>, <<"mantic">>}]

\* OsRelease::try_from: NAME and ID are required
OsReleaseTryFrom(text) ==
    IF ~text.name THEN Err("OsRelease(Name)")
    ELSE IF text.id = <<>> THEN Err("OsRelease(Id)")
    ELSE Ok([id |-> text.id[1], version_codename |-> text.version_codename])

\* Posix::detect_os
DetectOs(version, descriptor) ==
    IF version = "unreadable" THEN Err(ExitError)
    ELSE IF version = "unparsable" THEN Err("Version(Version)")
    ELSE IF version = "other" THEN Err("OsDetectionFailed")
    ELSE IF ~descriptor.readable THEN Ok("LinuxUnknown")
    ELSE LET release == OsReleaseTryFrom(descriptor)
         IN IF ~release.ok THEN release
            ELSE IF release.val.id \in {"ubuntu", "debian"}
                 THEN Ok(OsFromStr(IF release.val.version_codename = <<>>
                                   THEN release.val.id
                                   ELSE release.val.version_codename[1]))
                 ELSE Ok(OsFromStr(release.val.id))

\* the arguments of detect_os: what the two files of the endpoint hold
DetectArgs == [version : VersionTexts, descriptor : Descriptors]

\* detect_os is called
DetectOsCall ==
    /\ call.fn = "detect_os"
    /\ answer = <<>>
    /\ answer' = <<DetectOs(call.arg.version, call.arg.descriptor)>>
    /\ UNCHANGED <<call, su>>
    /\ UNCHANGED <<taskVars, authVars, sysVars, regVars>>

-----------------------------------------------------------------------------
(* Posix::run_user as three processes: the caller, the writer task and the child su *)

\* what is left alone by every step of run_user
restVars == <<taskVars, authVars, sysVars, regVars, callVars>>

\* command.stdin(piped).stdout(piped).stderr(piped).spawn()?, child.stdin.take(): the
\* child is live and the caller owns the write end of its stdin
ParentSpawn ==
    /\ su.parent = "idle"
    /\ su' = [su EXCEPT !.parent = "spawned", !.child = "live", !.stdin = "open"]
    /\ UNCHANGED restVars

\* spawn()? fails: run_user returns the io error, no child and no writer exist
ParentSpawnFail ==
    /\ su.parent = "idle"
    /\ su' = [su EXCEPT !.parent = "returned", !.result = <<Err(RunError("Io", <<>>, <<>>))>>]
    /\ UNCHANGED restVars

\* tokio::spawn(async move { stdin.write_all(pw) }): the write end moves into the writer
\* task; spawn returns at once
ParentSpawnWriter ==
    /\ su.parent = "spawned"
    /\ su' = [su EXCEPT !.parent = "writer spawned", !.writer = "ready"]
    /\ UNCHANGED restVars

\* child.wait_with_output() is called: the caller awaits the exit of the child
ParentWait ==
    /\ su.parent = "writer spawned"
    /\ su' = [su EXCEPT !.parent = "awaiting"]
    /\ UNCHANGED restVars

\* the writer task: write_all succeeds while the child keeps the read end open
WriterWrite ==
    /\ su.writer = "ready"
    /\ su.child # "exited"
    /\ su' = [su EXCEPT !.writer = "wrote", !.written = TRUE]
    /\ UNCHANGED restVars

\* the writer task: write_all fails on a pipe whose reader is gone; the error is logged
WriterFail ==
    /\ su.writer = "ready"
    /\ su.child = "exited"
    /\ su' = [su EXCEPT !.writer = "failed"]
    /\ UNCHANGED restVars

\* mutant: the write end is leaked when the write failed
WriterEndLeaking ==
    /\ su.writer \in {"wrote", "failed"}
    /\ su' = [su EXCEPT !.writer = "ended",
                        !.stdin = IF su.writer = "failed" THEN su.stdin ELSE "closed"]
    /\ UNCHANGED restVars

\* the writer task ends: the closure drops stdin, which closes the pipe
WriterEnd ==
    /\ su.writer \in {"wrote", "failed"}
    /\ su' = [su EXCEPT !.writer = "ended", !.stdin = "closed"]
    /\ UNCHANGED restVars

\* su reads its stdin: the secret once it is in the pipe, end-of-input from a closed
\* empty pipe
ChildRead ==
    /\ su.child = "live"
    /\ su.written \/ su.stdin = "closed"
    /\ su' = [su EXCEPT !.child = "read", !.got = IF su.written THEN su.secret ELSE "eof"]
    /\ UNCHANGED restVars

\* su exits after it has read, with the exit status and stderr of the command
ChildExit ==
    /\ su.child = "read"
    /\ \E exit \in {<<>>, <<0>>, <<1>>, <<2>>}, stderr \in Stderrs :
          su' = [su EXCEPT !.child = "exited", !.exit = exit, !.stderr = stderr]
    /\ UNCHANGED restVars

\* su exits without reading its stdin (the user does not exist, su is killed)
ChildExitEarly ==
    /\ su.child = "live"
    /\ \E exit \in {<<>>, <<1>>}, stderr \in {"plain", "no such user"} :
          su' = [su EXCEPT !.child = "exited", !.exit = exit, !.stderr = stderr]
    /\ UNCHANGED restVars

\* wait_with_output returns the output of the exited child; run_user maps it
ParentReturn ==
    /\ su.parent = "awaiting"
    /\ su.child = "exited"
    /\ su' = [su EXCEPT !.parent = "returned", !.result = <<RunUser(su.exit, su.stderr)>>]
    /\ UNCHANGED restVars

\* run_user is called with a secret
SuInit ==
    /\ su \in {[SuIdle EXCEPT !.secret = password] : password \in Passwords}
    /\ call = NoFn
    /\ answer = <<>>

InitSu == SuInit /\ TaskInit /\ AuthIdle /\ SysIdle /\ RegIdle

ParentStep == ParentSpawn \/ ParentSpawnFail \/ ParentSpawnWriter \/ ParentWait \/ ParentReturn
WriterStep == WriterWrite \/ WriterFail \/ WriterEnd

NextSu ==
    \/ ParentSpawn
    \/ ParentSpawnFail
    \/ ParentSpawnWriter
    \/ ParentWait
    \/ ParentReturn
    \/ WriterWrite
    \/ WriterFail
    \/ WriterEnd
    \/ ChildRead
    \/ ChildExit
    \/ ChildExitEarly

SpecSu == InitSu /\ [][NextSu]_vars

\* the tokio runtime runs the caller and the writer task whenever they can step; the
\* child reads what it is given and exits once it has read
SuFairness ==
    /\ WF_vars(ParentStep)
    /\ WF_vars(WriterStep)
    /\ WF_vars(ChildRead)
    /\ WF_vars(ChildExit)

FairSpecSu == SpecSu /\ SuFairness

-----------------------------------------------------------------------------
(* Requests on the System of a detected OS tag (system/mod.rs, rest.rs) *)

\* app_post up to the run: the app is looked up by name and tested with compatible(os)
AppPostLookup(name, os) ==
    IF name \notin RegisteredApps THEN Err("AppNotFound")
    ELSE IF ~AppCompatible(name, os) THEN Err("AppIncompatible")
    ELSE Ok("run")

\* SystemManager::system stores the tag detect_os returns; on that System: the compatible
\* field of the help of app `name`, what a run request for it comes to, and what
\* file_builders_mut_by_match returns for the path. An Option is a sequence of length <= 1.
OnDetectedOs(version, descriptor, name, path) ==
    LET os == DetectOs(version, descriptor)
    IN IF ~os.ok THEN [os |-> os, compatible |-> <<>>, run |-> <<>>, resolve |-> <<>>]
       ELSE [os |-> os,
             compatible |-> <<AppCompatible(name, os.val)>>,
             run |-> <<AppPostLookup(name, os.val)>>,
             resolve |-> <<FileBuildersMutByMatch(Files, path,
                                                  [credential |-> NoCred, os |-> <<os.val>>])>>]

OnDetectedOsArgs ==
    [version : VersionTexts, descriptor : Descriptors, name : RegisteredApps, path : Paths]

\* the OS of the endpoint is detected, then an app is asked for and a path resolved
OnDetectedOsCall ==
    /\ call.fn = "on_detected_os"
    /\ answer = <<>>
    /\ answer' = <<OnDetectedOs(call.arg.version, call.arg.descriptor, call.arg.name,
                                call.arg.path)>>
    /\ UNCHANGED <<call, su>>
    /\ UNCHANGED <<taskVars, authVars, sysVars, regVars>>

-----------------------------------------------------------------------------
(* POST /apps: a batch of apps in one request (rest.rs, apps_post) *)

\* mutant: only the app at position i is looked up and checked
AppsCheckFirst(apps, i, os) ==
    IF i > Len(apps) THEN Ok("checked")
    ELSE IF ~AppFound(apps[i].name) THEN Err("AppNotFound")
    ELSE IF ~AppCompatible(apps[i].name, os) THEN Err("AppIncompatible")
    ELSE Ok("checked")

\* the loop over the parsed body: each app is looked up by name and tested with
\* compatible(os); the first that fails is the error of the request
RECURSIVE AppsCheck(_, _, _)
AppsCheck(apps, i, os) ==
    IF i > Len(apps) THEN Ok("checked")
    ELSE IF ~AppFound(apps[i].name) THEN Err("AppNotFound")
    ELSE IF ~AppCompatible(apps[i].name, os) THEN Err("AppIncompatible")
    ELSE AppsCheck(apps, i + 1, os)

\* the loop that runs the apps synchronously, in body order: the first error ends the
\* request with `?`; ran lists the apps whose handler was executed
RECURSIVE AppsRun(_, _, _)
AppsRun(apps, i, transport) ==
    IF i > Len(apps) THEN [result |-> Ok(<<>>), ran |-> <<>>]
    ELSE LET out == AppRun(apps[i].name, apps[i].input, transport)
             later == AppsRun(apps, i + 1, transport)
         IN IF ~out.ok THEN [result |-> out, ran |-> <<apps[i].name>>]
            ELSE [result |-> IF later.result.ok THEN Ok(<<out.val>> \o later.result.val)
                                                ELSE later.result,
                  ran |-> <<apps[i].name>> \o later.ran]

\* apps_post on a cached System of OS tag os, the ledger holding `last` records: the
\* result, the handlers executed in the request and the records new_task pushed
AppsPost(arg, last) ==
    LET nothing == [result |-> Err("SerdeJson"), ran |-> <<>>, pushed |-> <<>>]
        check == AppsCheck(arg.apps, 1, arg.os)
        snapshots == [k \in 1..Len(arg.apps) |-> NewTask(last + k, arg.apps[k])]
    IN IF ~arg.parsed THEN nothing
       ELSE IF ~check.ok THEN [nothing EXCEPT !.result = check]
       ELSE IF arg.async THEN [result |-> Ok(snapshots), ran |-> <<>>, pushed |-> snapshots]
       ELSE LET run == AppsRun(arg.apps, 1, arg.transport)
            IN [result |-> run.result, ran |-> run.ran, pushed |-> <<>>]

\* the bodies of POST /apps: unparsable, or a list of one to MaxBatch apps; the OS tag of
\* the cached System: an Ubuntu release or an endpoint without a release descriptor
AppsArgs ==
    [parsed : BOOLEAN,
     apps : UNION {[1..n -> AppBodies] : n \in 1..MaxBatch},
     async : BOOLEAN,
     os : {"LinuxUbuntuFocal", "LinuxUnknown"},
     transport : Transports]

\* apps_post is called: the records of new_task are pushed and their units spawned
AppsPostCall ==
    /\ call.fn = "apps_post"
    /\ answer = <<>>
    /\ LET ret == AppsPost(call.arg, last_id)
       IN /\ answer' = <<ret>>
          /\ tasks' = tasks \o ret.pushed
          /\ last_id' = last_id + Len(ret.pushed)
          /\ unit' = [id \in TaskIds |->
                        IF id \in (last_id + 1)..(last_id + Len(ret.pushed))
                        THEN [pc |-> "spawned", result |-> Err(None)] ELSE unit[id]]
    /\ UNCHANGED <<call, su, ledgerLock, ctrlLock, req>>
    /\ UNCHANGED <<authVars, sysVars, regVars>>

-----------------------------------------------------------------------------
(* Specification of the functions called on their own *)

CallFns == {"file", "app", "compatible", "run_args", "detect_os", "apps_post",
            "file_by_name", "on_detected_os"}

CallArgs(f) ==
    CASE f = "file" -> FileArgs
      [] f = "app" -> AppArgs
      [] f = "compatible" -> OsArgs
      [] f = "run_args" -> Exits
      [] f = "detect_os" -> DetectArgs
      [] f = "apps_post" -> AppsArgs
      [] f = "file_by_name" -> FilesByNameArgs
      [] f = "on_detected_os" -> OnDetectedOsArgs

\* one function is about to be called with arguments of its domain
CallInit ==
    /\ \E f \in CallFns : call \in [fn : {f}, arg : CallArgs(f)]
    /\ answer = <<>>
    /\ su = SuIdle

InitCalls == CallInit /\ TaskInit /\ AuthIdle /\ SysIdle /\ RegIdle

NextCalls ==
    \/ FileOpCall
    \/ AppRunCall
    \/ CompatibleCall
    \/ RunArgsCall
    \/ DetectOsCall
    \/ AppsPostCall
    \/ FilesByNameCall
    \/ OnDetectedOsCall

SpecCalls == InitCalls /\ [][NextCalls]_vars

-----------------------------------------------------------------------------
(* Claims about the ledger *)

Submitting(r) == req[r].kind = "submit"

\* C1: the new_task call made when the ledger holds N records creates the record with
\* id N+1, so ids increase strictly in submission order and never repeat, whatever the
\* units do; the snapshots one batch request receives carry consecutive ids in order.
C1_IdsFollowSubmissionOrder ==
    /\ \A i \in 1..Len(tasks) : tasks[i].id = i
    /\ \A i, j \in 1..Len(tasks) : i < j => tasks[i].id < tasks[j].id
    /\ \A r \in Reqs : Submitting(r) =>
          \A i \in 1..Len(req[r].out) :
              /\ req[r].out[i].id \in 1..Len(tasks)
              /\ i > 1 => req[r].out[i].id = req[r].out[i - 1].id + 1

\* two tasks of one batch, the second finished while the first has not
C1_Witness ==
    /\ Len(tasks) = 2
    /\ Terminal(tasks[2].status)
    /\ ~Terminal(tasks[1].status)
    /\ \E r \in Reqs : Submitting(r) /\ Len(req[r].out) = 2

Forward == {<<"Created", "Running">>, <<"Running", "Finished">>, <<"Running", "Failed">>}

\* C2: the status of a record only moves Created -> Running -> Finished or Failed: it
\* never goes back, never leaves a terminal status, never skips Running.
C2_StatusOnlyForward ==
    [][\A i \in 1..Len(tasks) :
          /\ i <= Len(tasks')
          /\ \/ tasks'[i].status = tasks[i].status
             \/ <<tasks[i].status, tasks'[i].status>> \in Forward]_vars

\* one record Finished, one Failed
C2_Witness ==
    /\ Len(tasks) = 2
    /\ tasks[1].status = "Finished"
    /\ tasks[2].status = "Failed"

RecordConsistent(t) ==
    /\ t.app_output # None => t.status = "Finished"
    /\ t.app_error # None => t.status = "Failed"
    /\ t.status \in {"Created", "Running"} => t.app_output = None /\ t.app_error = None
    /\ ~(t.app_output # None /\ t.app_error # None)

\* C3: in every state a reader holding the ledger lock can observe (the lock is not with
\* a unit in the middle of its write) a record has an output only if Finished, an error
\* only if Failed, neither while Created or Running, and never both.
C3_OutputErrorMatchStatus ==
    ledgerLock.kind # "unit" => \A i \in 1..Len(tasks) : RecordConsistent(tasks[i])

\* a reader holds the ledger lock while one record is Finished and another is Running
C3_Witness ==
    /\ \E r \in Reqs : req[r].pc = "reading" /\ ledgerLock = ByReq(r)
    /\ \E i, j \in 1..Len(tasks) :
          /\ tasks[i].status = "Finished" /\ tasks[i].app_output # None
          /\ tasks[j].status = "Running"

C5_ReturnedHandlerLeadsToTerminal ==
    /\ \A id \in TaskIds :
          (unit[id].pc = "returned") ~> (id <= Len(tasks) /\ Terminal(tasks[id].status))
    /\ [](\A id \in TaskIds : unit[id].pc # "escaped")

\* a handler error (non-zero exit) was written into the record
C5_Witness ==
    \E id \in 1..Len(tasks) :
        /\ unit[id].pc = "done"
        /\ unit[id].result = Err("RunUser")
        /\ tasks[id].app_error = "RunUser"

\* C6: new_task appends the Created record before it spawns the unit and before it
\* returns; the snapshot it returns is that record with status Created, no output and no
\* error; and its return never waits for the unit (it is enabled whatever the unit does).
C6_CreatedBeforeSpawnAndReturn ==
    /\ \A id \in TaskIds : unit[id].pc # "none" => id <= Len(tasks)
    /\ \A r \in Reqs :
          /\ req[r].pc \in {"pushed", "spawnedUnit"} =>
                /\ req[r].app.id <= Len(tasks)
                /\ tasks[req[r].app.id] = req[r].app
          /\ req[r].pc = "pushed" => unit[req[r].app.id].pc = "none"
          /\ req[r].pc = "spawnedUnit" => ENABLED NewTaskReturn(r)
          /\ Submitting(r) =>
                \A i \in 1..Len(req[r].out) :
                    /\ req[r].out[i].status = "Created"
                    /\ req[r].out[i].app_output = None
                    /\ req[r].out[i].app_error = None

\* a request holds the Created snapshot of a task that has meanwhile Finished
C6_Witness ==
    \E r \in Reqs : Submitting(r) /\ Len(req[r].out) > 0
        /\ req[r].out[1].status = "Created"
        /\ tasks[req[r].out[1].id].status = "Finished"

-----------------------------------------------------------------------------
(* Claims about the token list *)

\* the record of the list that carries the token of log entry e, if any
Carried(e) == \E i \in 1..Len(auths) : auths[i].token = e.token

\* the last insert_or_replace call for the username of log entry k
Latest(k) == \A m \in (k + 1)..Len(issued) : issued[m].username # issued[k].username

\* C7: a token issued at t0 for a username that had no record resolves through get to
\* that username and password at every time now < t0 + TTL and get returns
\* AuthTokenExpired (not AuthNotFound) at every time now >= t0 + TTL while its record is in
\* the list; with TTL = 0 it is expired at once.
C7_FreshTokenValidUntilTtl ==
    \A k \in 1..Len(issued) :
        LET e == issued[k]
        IN (e.fresh /\ Carried(e)) =>
              /\ now < e.at + duration =>
                    AuthGet(auths, e.token, now) = Ok(<<e.username, e.password>>)
              /\ now >= e.at + duration =>
                    AuthGet(auths, e.token, now) = Err("AuthTokenExpired")
              /\ duration = 0 => AuthGet(auths, e.token, e.at) = Err("AuthTokenExpired")
              /\ (lastGet.op = "get" /\ lastGet.token = e.token) =>
                    lastGet.ret = IF now < e.at + duration
                                  THEN Ok(<<e.username, e.password>>)
                                  ELSE Err("AuthTokenExpired")

\* with a TTL above zero, get has just answered AuthTokenExpired for a token issued to a
\* new username, exactly TTL after its issuance
C7_Witness ==
    /\ duration > 0
    /\ lastGet.op = "get"
    /\ lastGet.ret = Err("AuthTokenExpired")
    /\ \E k \in 1..Len(issued) :
          /\ issued[k].fresh /\ Carried(issued[k])
          /\ issued[k].token = lastGet.token
          /\ now = issued[k].at + duration

\* C8: insert_or_replace at t1 for a username that has a record updates it in place with
\* a new token and the issued-at timestamp t1, so the new token resolves at every time
\* now < t1 + TTL, also when the previous token had expired.
C8_ReplaceRefreshesTimestamp ==
    \A k \in 1..Len(issued) :
        LET e == issued[k]
        IN (~e.fresh /\ Carried(e)) =>
              /\ auths[FirstByToken(auths, e.token)].date = e.at
              /\ now < e.at + duration =>
                    AuthGet(auths, e.token, now) = Ok(<<e.username, e.password>>)

\* C9: after insert_or_replace is called again for a username, get on the token issued
\* before returns AuthNotFound, the new token differs from the old one and resolves (while
\* now < its issuance + TTL) to the password of the latest call.
C9_ReissueInvalidatesOldToken ==
    \A k, m \in 1..Len(issued) :
        (k < m /\ issued[k].username = issued[m].username /\ Latest(m) /\ Carried(issued[m])) =>
            /\ AuthGet(auths, issued[k].token, now) = Err("AuthNotFound")
            /\ issued[m].token # issued[k].token
            /\ now < issued[m].at + duration =>
                  AuthGet(auths, issued[m].token, now) =
                      Ok(<<issued[m].username, issued[m].password>>)

\* C10: after any sequence of insert_or_replace, get and delete calls the list holds at
\* most one record per username, hence at most one token per username resolves.
C10_OneRecordPerUsername ==
    /\ \A i, j \in 1..Len(auths) : auths[i].username = auths[j].username => i = j
    /\ \A username \in Users :
          Cardinality({token \in Tokens :
                          /\ AuthGet(auths, token, now).ok
                          /\ AuthGet(auths, token, now).val[1] = username}) <= 1

\* a username was issued a second token and its one record resolves
C10_Witness ==
    /\ Len(issued) = 2
    /\ issued[1].username = issued[2].username
    /\ Len(auths) = 1
    /\ AuthGet(auths, issued[2].token, now).ok

\* the records of a list that do not carry the token, in list order
Others(list, token) == SelectSeq(list, LAMBDA auth : auth.token # token)

\* C11: delete(token) returns true exactly when a record carrying the token was in the
\* list, and that record is gone after the call; a second delete of the same token
\* returns false and leaves the list unchanged; records of other tokens are kept, in order.
C11_DeleteTrueIffRemoved ==
    [][(lastGet'.op = "delete" /\ lastGet' # lastGet) =>
          LET token == lastGet'.token
          IN /\ lastGet'.ret = Ok(\E i \in 1..Len(auths) : auths[i].token = token)
             /\ \A i \in 1..Len(auths') : auths'[i].token # token
             /\ Others(auths', token) = Others(auths, token)
             /\ DeleteList(auths', token) = auths'
             /\ ~(Len(auths') > Len(DeleteList(auths', token)))]_vars

\* delete has just returned true for one of two records and the other is still listed
C11_Witness ==
    /\ lastGet.op = "delete"
    /\ lastGet.ret = Ok(TRUE)
    /\ Len(auths) = 1
    /\ auths[1].token # lastGet.token

-----------------------------------------------------------------------------
(* Claims about the token routes and the SystemManager *)

\* the credential a Basic header presents
Presented(r) == <<web[r].header.username, web[r].header.password>>

\* C12: a GET /token request presenting a username/password the backend rejects is
\* answered UNAUTHORIZED and gets no token, and no record of the auth list carries a
\* rejected username/password, whether or not a System is cached.
C12_RejectedCredentialGetsNoToken ==
    /\ \A r \in Reqs :
          (/\ web[r].pc = "done"
           /\ web[r].route.kind = "tokenGet"
           /\ web[r].header.kind = "basic"
           /\ Presented(r) \notin Accepted) =>
              /\ web[r].status = "UNAUTHORIZED"
              /\ web[r].body = <<>>
    /\ \A i \in 1..Len(auths) : <<auths[i].username, auths[i].password>> \in Accepted

\* the authentication step of request r is taken
Authenticates(r) == web[r].pc = "auth" /\ web'[r].pc # "auth"

\* C13: a token a DELETE /token request was answered ACCEPTED for, and the token that
\* was never issued, resolve to AuthNotFound from then on, and every request whose
\* authentication step runs with such a bearer token is answered UNAUTHORIZED by that
\* step without reaching a handler.
C13_RevokedTokenRejected ==
    /\ [](\A token \in revoked \cup {NeverIssued} :
              AuthGet(auths, token, now) = Err("AuthNotFound"))
    /\ [][\A r \in Reqs :
              (/\ Authenticates(r)
               /\ web[r].header.kind = "bearer"
               /\ web[r].header.token \in revoked \cup {NeverIssued}) =>
                  /\ web'[r].pc = "done"
                  /\ web'[r].status = "UNAUTHORIZED"
                  /\ web'[r].error = "AuthNotFound"]_vars

\* a request carrying a revoked token has been answered UNAUTHORIZED
C13_Witness ==
    \E r \in Reqs :
        /\ web[r].pc = "done"
        /\ web[r].header.kind = "bearer"
        /\ web[r].header.token \in revoked
        /\ web[r].status = "UNAUTHORIZED"

\* C14: once a System is cached, every call of SystemManager::system returns that
\* System (credential and OS tag of the first resolution) whatever credential it passes,
\* the cache never changes, and no call probes the endpoint or detects the OS again.
C14_CachedSystemReturned ==
    /\ [](\A r \in Reqs : web[r].pc = "resolved" => web[r].sys = system)
    /\ [](system # <<>> => \A r \in Reqs : web[r].pc # "probed")
    /\ [][system # <<>> =>
              /\ system' = system
              /\ built' = built
              /\ \A r \in Reqs : web'[r].probe \in {web[r].probe, "none"}]_vars

\* a call passing another credential than the stored one got the cached System
C14_Witness ==
    \E r \in Reqs :
        /\ web[r].pc = "resolved"
        /\ web[r].probe = "none"
        /\ web[r].sys = system
        /\ web[r].cred # system[1].credential

\* every System value of the state paired with whether its OS detection has run
Systems ==
    (IF system = <<>> THEN {} ELSE {<<system[1], TRUE>>})
        \cup {<<web[r].sys[1], web[r].pc # "probed">> : r \in {q \in Reqs : web[q].sys # <<>>}}

\* C15: over every interleaving of the requests at most one System is cached; the OS tag
\* of a System, once set, never changes; os() is an error exactly on a System whose OS
\* detection has not run.
C15_SystemBuiltOnce ==
    /\ [](built <= 1)
    /\ [](\A pair \in Systems :
              /\ SystemOs(pair[1]).ok <=> pair[2]
              /\ ~pair[2] => SystemOs(pair[1]) = Err("OsDetection"))
    /\ [][/\ system # <<>> => (system' # <<>> /\ system'[1].os = system[1].os)
          /\ \A r \in Reqs :
                (web[r].sys # <<>> /\ web[r].sys[1].os # <<>> /\ web'[r].sys # <<>>) =>
                    web'[r].sys[1].os = web[r].sys[1].os]_vars

\* one request holds the cached System while a DELETE /token waits for the Controller lock
C15_Witness ==
    /\ built = 1
    /\ \E r, q \in Reqs :
          /\ web[r].pc = "resolved" /\ web[r].probe = "none"
          /\ web[q].pc = "handler" /\ web[q].route.kind = "tokenDelete"

\* C16: a first resolution whose probe finds a required primitive absent fails with
\* EndpointIncompatible and returns no System.
C16_AbsentPrimitiveIsEndpointIncompatible ==
    \A r \in Reqs :
        (web[r].pc = "done" /\ web[r].probe = "absent") =>
            /\ web[r].error = "EndpointIncompatible"
            /\ web[r].sys = <<>>

-----------------------------------------------------------------------------
(* Claims about the file handlers *)

\* some OS tag the pattern declares is compatible with the OS tag of the System
OsMatches(pattern, os) ==
    \E i \in 1..Len(pattern.compatibility) : Compatible(pattern.compatibility[i], os)

\* C18: for every path and OS tag, file_builders_mut_by_match returns the earliest
\* builder of the registry that matches (path, OS), and FilesNotMatchedByPattern when no
\* builder matches; it always returns one of the two.
C18_EarliestMatchingBuilder ==
    found # <<>> =>
        LET ret == found[1]
            hit(i) == FileBuildersMatch(Files[i], query.path, query.os)
        IN IF \E i \in 1..Len(Files) : hit(i)
           THEN /\ ret.ok
                /\ \E i \in 1..Len(Files) :
                      /\ Files[i].name = ret.val
                      /\ hit(i)
                      /\ \A j \in 1..(i - 1) : ~hit(j)
           ELSE ret = Err("FilesNotMatchedByPattern")

\* a cron.d entry resolves to CrontabBuilder although the catch-all TextBuilder,
\* registered later, matches it too
C18_Witness ==
    /\ found = <<Ok("CrontabBuilder")>>
    /\ FileBuildersMatch(Files[Len(Files)], query.path, query.os)
    /\ query.os = "LinuxUbuntuFocal"

-----------------------------------------------------------------------------
(* Claims about the app and file routes *)

\* the handler of request r, or the transport call it made, is executing
Executing(r) == web[r].pc \in {"running", "reading"}

\* C17: no request holds the Controller lock while its handler or the transport call of
\* its handler executes (a synchronous app run, a file read or delete).
C17_NoControllerLockWhileExecuting ==
    \A r \in Reqs : Executing(r) => ctrlLock # r

\* the OS tag of the System the SystemManager has cached
CachedOs == system[1].os[1]

\* C20: an app is run or scheduled only if it is registered under the name and
\* compatible(os) holds for the OS tag of the System; a request for a name that is not
\* registered is answered AppNotFound and one for an incompatible app AppIncompatible, and
\* in both cases no handler ran and no task record was created.
C20_RunOnlyFoundAndCompatible ==
    /\ [](\A r \in Reqs :
             (web[r].route.kind = "app" /\ (web[r].pc \in {"running", "scheduling"} \/ web[r].ran)) =>
                 /\ AppFound(web[r].route.name)
                 /\ \E i \in 1..Len(SupportedOs(web[r].route.name)) :
                        Compatible(SupportedOs(web[r].route.name)[i], CachedOs))
    /\ [](\A i \in 1..Len(tasks) :
             /\ AppFound(tasks[i].app_name)
             /\ \E k \in 1..Len(SupportedOs(tasks[i].app_name)) :
                    Compatible(SupportedOs(tasks[i].app_name)[k], CachedOs))
    /\ [](\A r \in Reqs :
             (web[r].route.kind = "app" /\ web[r].pc = "done" /\ web[r].looked) =>
                 /\ ~AppFound(web[r].route.name) =>
                       /\ web[r].error = "AppNotFound"
                       /\ web[r].status = "NOT_FOUND"
                       /\ ~web[r].ran /\ web[r].body = <<>>
                 /\ (AppFound(web[r].route.name) /\ CachedOs \in {"Unknown", "LinuxUnknown"}) =>
                       /\ web[r].error = "AppIncompatible"
                       /\ ~web[r].ran /\ web[r].body = <<>>)
    /\ [][\A r \in Reqs :
             (web[r].pc # "done" /\ web'[r].pc = "done"
                  /\ web'[r].error \in {"AppNotFound", "AppIncompatible"}) =>
                 /\ tasks' = tasks
                 /\ unit' = unit
                 /\ ~web'[r].ran]_vars

\* on a System whose OS tag is Unknown an async request for a registered app was answered
\* AppIncompatible, and a request for an unregistered name AppNotFound
C20_Witness ==
    /\ system # <<>>
    /\ CachedOs = "Unknown"
    /\ tasks = <<>>
    /\ \E r, q \in Reqs :
          /\ web[r].pc = "done" /\ web[r].route.async /\ web[r].error = "AppIncompatible"
          /\ web[q].pc = "done" /\ web[q].error = "AppNotFound"

-----------------------------------------------------------------------------
(* Claims about the functions called on their own *)

\* the call in progress is op on a handler, and it has returned
FileCalled(op) == call.fn = "file" /\ call.arg.op = op /\ answer # <<>>

\* the handler of the call in progress, and whether it matches the path on the OS tag
Handler == Handlers[call.arg.builder]
HandlerMatches == FileBuildersMatch(Handler, call.arg.path, call.arg.os)

\* C21: for every file handler, delete is available and calls System.delete whatever
\* capabilities the handler declares; read and write on a handler that does not override
\* them fail with NotCapable(Read) respectively NotCapable(Write) and make no call on the
\* System.
C21_DeleteAlwaysDefaultsNotCapable ==
    /\ FileCalled("delete") =>
          /\ answer[1].calls = <<"delete">>
          /\ answer[1].result.ok <=> call.arg.transport = "exit0"
          /\ ~answer[1].result.ok => answer[1].result.val = ExitError
    /\ (FileCalled("read") /\ HandlerMatches /\ Handler.name \notin ReadOverrides) =>
          /\ answer[1].result = Err("NotCapable(Read)")
          /\ answer[1].calls = <<>>
    /\ (FileCalled("write") /\ HandlerMatches /\ Handler.name \notin WriteOverrides) =>
          /\ answer[1].result = Err("NotCapable(Write)")
          /\ answer[1].calls = <<>>

\* delete was called on a handler that declares Read only, with a path the handler does
\* not even match, and it reached the System
C21_Witness ==
    /\ FileCalled("delete")
    /\ Capabilities(Handler.name) = {"Read"}
    /\ ~HandlerMatches
    /\ answer[1] = Returned(Ok("unit"), <<"delete">>)

\* C22: for every registered app, a run with an untyped input that does not match the
\* app's typed input fails with the Deserialize error, which is none of the execution
\* errors, and makes no call on the System.
C22_MalformedInputIsDeserializeError ==
    (call.fn = "app" /\ answer # <<>> /\ call.arg.input = "malformed") =>
        /\ answer[1].result = Err("Deserialize")
        /\ answer[1].calls = <<>>

\* compatible has been called on the pairs of the three tags
CompatibleCalled == call.fn = "compatible" /\ answer # <<>>

\* C23: over the whole set of OS tags compatible is a partial order: reflexive,
\* antisymmetric (a.compatible(b) and b.compatible(a) imply a = b) and transitive
\* (a.compatible(b) and b.compatible(c) imply a.compatible(c)).
C23_CompatibleIsPartialOrder ==
    CompatibleCalled =>
        /\ answer[1].aa
        /\ (answer[1].ab /\ answer[1].ba) => call.arg.a = call.arg.b
        /\ (answer[1].ab /\ answer[1].bc) => answer[1].ac

\* C24: each family tag (LinuxAny, LinuxUbuntu, LinuxDebian) is compatible with every tag
\* of the set its match arm lists, and no tag of that set is compatible with the family
\* tag unless the two are equal.
C24_FamilyDownOnly ==
    (CompatibleCalled /\ call.arg.b \in Listed(call.arg.a)) =>
        /\ answer[1].ab
        /\ call.arg.a # call.arg.b => ~answer[1].ba

\* C25: LinuxAny and each distro-family tag are compatible with each other in both
\* directions; a distro-family tag is compatible with each of its release tags and no
\* release tag with its distro family; Unknown is compatible with Unknown and not with
\* LinuxAny.
C25_FamiliesMutualReleasesOneWay ==
    CompatibleCalled =>
        /\ (call.arg.a = "LinuxAny" /\ call.arg.b \in {"LinuxUbuntu", "LinuxDebian"}) =>
              answer[1].ab /\ answer[1].ba
        /\ (call.arg.a = "LinuxUbuntu" /\ call.arg.b \in UbuntuReleases) =>
              answer[1].ab /\ ~answer[1].ba
        /\ (call.arg.a = "LinuxDebian" /\ call.arg.b \in DebianReleases) =>
              answer[1].ab /\ ~answer[1].ba
        /\ call.arg.a = "Unknown" => answer[1].aa
        /\ (call.arg.a = "Unknown" /\ call.arg.b = "LinuxAny") => ~answer[1].ab

\* compatible was called on LinuxUbuntu, its release Luna, and LinuxAny
C25_Witness ==
    /\ CompatibleCalled
    /\ call.arg.a = "LinuxUbuntu" /\ call.arg.b = "LinuxUbuntuLuna" /\ call.arg.c = "LinuxAny"
    /\ answer[1] = [aa |-> TRUE, ab |-> TRUE, ba |-> FALSE, bc |-> FALSE, ac |-> TRUE]

\* run_args has been called and the command has ended
RunCalled == call.fn = "run_args" /\ answer # <<>>

\* the stderr text an error carries: on the local backend the prompt of su is taken off
Unprompted(backend, stderr) ==
    IF backend = "local" /\ stderr = "prefixed" THEN "plain" ELSE stderr

\* C26: on both backends run returns the stdout of the command iff the command exited
\* with status zero; every non-zero exit makes run return an error that carries the exit
\* code and stderr (stderr without the prompt of su), or one of the two credential errors
\* derived from stderr; no non-zero exit becomes a successful result.
C26_NonZeroExitIsErrorWithCodeAndStderr ==
    RunCalled =>
        /\ answer[1].ok <=> call.arg.exit = <<0>>
        /\ answer[1].ok => answer[1].val = "stdout"
        /\ (call.arg.exit # <<>> /\ call.arg.exit # <<0>>) =>
              /\ ~answer[1].ok
              /\ \/ /\ answer[1].val.name = (IF call.arg.backend = "ssh" THEN "RunSsh" ELSE "RunUser")
                    /\ answer[1].val.code = call.arg.exit
                    /\ answer[1].val.stderr = <<Unprompted(call.arg.backend, call.arg.stderr)>>
                 \/ /\ call.arg.backend = "local"
                    /\ call.arg.stderr = "auth failure"
                    /\ answer[1].val.name = "RunUserPasswordInvalid"
                 \/ /\ call.arg.backend = "local"
                    /\ call.arg.stderr = "no such user"
                    /\ answer[1].val.name = "RunUserUserInvalid"

\* detect_os has been called
DetectCalled == call.fn = "detect_os" /\ answer # <<>>

\* C28: detect_os fails with OsDetectionFailed when the kernel version text does not
\* identify as Linux; when it does, detection succeeds whatever the state of the
\* descriptor: LinuxUnknown when the descriptor cannot be read, parse(version codename)
\* for id ubuntu or debian with a codename, parse(id) in every other case.
C28_DetectOsNeverFailsOnDescriptor ==
    DetectCalled =>
        LET d == call.arg.descriptor
        IN /\ call.arg.version = "other" => answer[1] = Err("OsDetectionFailed")
           /\ call.arg.version = "linux" =>
                 /\ answer[1].ok
                 /\ ~d.readable => answer[1].val = "LinuxUnknown"
                 /\ (d.readable /\ d.id # <<>>) =>
                       answer[1].val =
                           (IF d.id[1] \in {"ubuntu", "debian"} /\ d.version_codename # <<>>
                            THEN OsFromStr(d.version_codename[1])
                            ELSE OsFromStr(d.id[1]))

-----------------------------------------------------------------------------
(* Claims about asynchronous execution *)

\* what POST /app/{name} without ?async answers for the app and input of task id when
\* the transport does the same: the result of app_builder.run
SyncRun(id, transport) == AppRun(tasks[id].app_name, tasks[id].app_input, transport)

HandlerExecuting(id) == unit[id].pc = "running"

\* C29: the ledger lock is held only for the short mutations of a task (new_task's append
\* of the Created record, the terminal write) and by a reader, never by a unit whose handler
\* executes; a unit holds it only between its lock and its terminal write, a request only
\* inside new_task or while it lists the tasks.
C29_LedgerLockNeverAcrossExecution ==
    /\ \A id \in TaskIds : HandlerExecuting(id) => ledgerLock # ByUnit(id)
    /\ ledgerLock.kind = "unit" => unit[ledgerLock.who].pc \in {"locked", "written"}
    /\ ledgerLock.kind = "req" => req[ledgerLock.who].pc \in {"pushed", "spawnedUnit", "reading"}

\* two tasks are Running with their handlers executing while a reader holds the ledger
\* lock and lists the tasks
C29_Witness ==
    /\ \E i, j \in TaskIds :
          /\ i # j
          /\ HandlerExecuting(i) /\ tasks[i].status = "Running"
          /\ HandlerExecuting(j) /\ tasks[j].status = "Running"
    /\ \E r \in Reqs : req[r].pc = "reading" /\ ledgerLock = ByReq(r)

-----------------------------------------------------------------------------
(* Claims about the local become-user run *)

\* C30: the secret is written to the child's stdin only after the child has been spawned;
\* the writer is a task of its own, so the caller starts awaiting the child whether or not
\* the writer has written; the stdin pipe is closed whenever the writer has ended, also
\* after a failed write; under fair scheduling the run call returns in every interleaving
\* of caller, writer and child.
C30_WriterNeverBlocksRun ==
    /\ [](su.writer # "none" => su.child # "none")
    /\ [](su.written => su.child # "none")
    /\ [](su.writer = "ended" => su.stdin = "closed")
    /\ [](su.got \notin {"nothing", "eof"} => (su.got = su.secret /\ su.written))
    /\ [][(su.parent = "writer spawned" /\ su'.parent = "awaiting") =>
             su'.writer = su.writer]_vars
    /\ [](su.parent = "writer spawned" => ENABLED ParentWait)
    /\ <>(su.parent = "returned")
    /\ <>(su.writer \in {"none", "ended"} /\ su.parent = "returned")

\* the caller is awaiting the child while the writer has not yet written the secret
C30_Witness ==
    /\ su.parent = "awaiting"
    /\ su.writer = "ready"
    /\ su.child = "live"
    /\ ~su.written

-----------------------------------------------------------------------------
(* Claims about the ledger as a whole *)

\* the step changes the record of task i
Modified(i) == tasks'[i] # tasks[i]

\* C31: the ledger is append-only. Its length equals the last allocated id and the record
\* at index i (0-based) has id i + 1; no step removes or reorders a record or changes the
\* id, the app name or the input of one; a step that changes an existing record is a
\* step of the unit spawned for that record's id and of no other unit or request; and no
\* unit ever ends with TaskInvalidIndex.
C31_LedgerAppendOnly ==
    /\ [](/\ Len(tasks) = last_id
          /\ \A i \in 1..Len(tasks) : tasks[i].id = i
          /\ \A id \in TaskIds : unit[id].result # Err("TaskInvalidIndex"))
    /\ [][/\ Len(tasks') >= Len(tasks)
          /\ \A i \in 1..Len(tasks) :
               /\ tasks'[i].id = tasks[i].id
               /\ tasks'[i].app_name = tasks[i].app_name
               /\ tasks'[i].app_input = tasks[i].app_input
               /\ Modified(i) =>
                    /\ unit'[i] # unit[i]
                    /\ \A j \in TaskIds \ {i} : unit'[j] = unit[j]
                    /\ req' = req]_vars

\* two submissions have been made and both units have completed: the second unit wrote
\* its terminal record while the first record was in the ledger
C31_Witness ==
    /\ Len(tasks) = 2
    /\ last_id = 2
    /\ \A i \in 1..2 : unit[i].pc = "done" /\ Terminal(tasks[i].status)
    /\ tasks[1].status # tasks[2].status

-----------------------------------------------------------------------------
(* Claims about expired tokens *)

\* the list holds the record
InList(list, auth) == \E j \in 1..Len(list) : list[j] = auth

\* C32: get never changes the auth list. A lookup of a token whose record has expired
\* returns AuthTokenExpired and the record is in the list after the call; an expired
\* record leaves the list only in a delete with its token or in an insert_or_replace for
\* its username, and until then no other record of its username is listed.
C32_GetLeavesExpiredRecord ==
    /\ [][lastGet'.op = "get" => auths' = auths]_vars
    /\ [](lastGet.op = "get" =>
            \A i \in 1..Len(auths) :
                (auths[i].token = lastGet.token /\ Expired(auths[i], now)) =>
                    lastGet.ret = Err("AuthTokenExpired"))
    /\ [][\A i \in 1..Len(auths) :
            Expired(auths[i], now) =>
                \/ /\ InList(auths', auths[i])
                   /\ \A j \in 1..Len(auths') :
                        auths'[j].username = auths[i].username => auths'[j] = auths[i]
                \/ lastGet'.op = "delete" /\ lastGet'.token = auths[i].token
                \/ /\ Len(issued') = Len(issued) + 1
                   /\ issued'[Len(issued')].username = auths[i].username]_vars

\* a get has just returned AuthTokenExpired for a token whose record is still listed,
\* next to the record of another username
C32_Witness ==
    /\ lastGet.op = "get"
    /\ lastGet.ret = Err("AuthTokenExpired")
    /\ Len(auths) = 2
    /\ \E i \in 1..Len(auths) : auths[i].token = lastGet.token /\ Expired(auths[i], now)

-----------------------------------------------------------------------------
(* Claims about the registration order of the file handlers *)

\* the catch-all handlers, and the positions of the registry that hold the other handlers
CatchAlls == {"YamlBuilder", "JsonBuilder", "TextBuilder"}
Specific == {i \in 1..Len(Files) : Files[i].name \notin CatchAlls}

\* every handler outside the catch-alls is registered before yaml, json and text, its
\* patterns are exact paths or the cron.d pattern, and text is registered last
SpecificBeforeCatchAlls ==
    /\ \A i \in Specific, j \in 1..Len(Files) : Files[j].name \in CatchAlls => i < j
    /\ \A i \in Specific : \A k \in 1..Len(Files[i].patterns) :
         Files[i].patterns[k].kind = "path" \/ Files[i].patterns[k].regex = "crond"
    /\ Files[Len(Files)].name = "TextBuilder"

-----------------------------------------------------------------------------
(* Claims about the credential of the cached System *)

\* the request holds a System out of system_credential: it verifies the credential,
\* looks an app or a file up, schedules a task or runs a handler with it
HoldsSystem(r) == web[r].pc \in {"resolved", "cloned", "scheduling", "running", "reading"}

\* C34: once a System is cached it is never replaced and it carries the credential of
\* the request whose resolution built it; every request that holds a System (to verify
\* a credential, to schedule a task, to run an app or a file operation) holds it with
\* the credential of the cached System, whatever credential the request presented.
C34_FirstCredentialUsedByAll ==
    /\ [](\A r \in Reqs :
            (HoldsSystem(r) /\ system # <<>>) =>
                /\ web[r].sys # <<>>
                /\ web[r].sys[1].credential = system[1].credential)
    /\ [][system # <<>> => system' = system]_vars
    /\ [][(system = <<>> /\ system' # <<>>) =>
            \E r \in Reqs : /\ web[r].pc = "probed"
                            /\ system'[1].credential = web[r].cred]_vars

\* a request that presented a credential the backend rejects runs an app with the
\* credential of the cached System
C34_Witness ==
    \E r \in Reqs :
        /\ web[r].pc = "running"
        /\ web[r].cred \notin Accepted
        /\ web[r].sys[1].credential \in Accepted

-----------------------------------------------------------------------------
(* Claims about the order of the two locks *)

\* a request is in flight or a unit has not ended
Busy ==
    \/ \E r \in Reqs : req[r].pc # "idle"
    \/ \E id \in TaskIds : unit[id].pc \notin {"none", "done", "escaped"}

\* the request waits for the ledger lock
WantsLedger(r) == req[r].pc = "held" /\ (req[r].kind = "poll" \/ req[r].left > 0)

\* C35: the locks are taken in the order Controller lock, ledger lock. A request holds
\* the ledger lock only while it holds the Controller lock; a step of a unit never
\* changes the holder of the Controller lock and a unit never holds it; while a request
\* is in flight or a unit has not ended, some step of a request or a unit can be taken;
\* and with fair locks and handlers that return, a request that waits for the Controller
\* lock or for the ledger lock comes to hold the ledger lock (and with it the Controller
\* lock), and a unit that has been spawned comes to hold the ledger lock for its result.
C35_LockOrderNoDeadlock ==
    /\ [](/\ \A r \in Reqs : ledgerLock = ByReq(r) => ctrlLock = r
          /\ ctrlLock \in Reqs \cup {0}
          /\ Busy => ENABLED Proceed)
    /\ [][unit' # unit /\ req' = req => ctrlLock' = ctrlLock]_vars
    /\ \A r \in Reqs : (req[r].pc = "wait" \/ WantsLedger(r)) ~> (ledgerLock = ByReq(r))
    /\ \A id \in TaskIds : (unit[id].pc \in {"spawned", "running", "returned"})
                               ~> (ledgerLock = ByUnit(id))

\* a request holds the Controller lock and waits for the ledger lock, which a unit
\* holds, while the other request waits for the Controller lock
C35_Witness ==
    \E r \in Reqs, id \in TaskIds :
        /\ ctrlLock = r
        /\ WantsLedger(r)
        /\ ledgerLock = ByUnit(id)
        /\ \E other \in Reqs \ {r} : req[other].pc = "wait"

-----------------------------------------------------------------------------
(* Claims about failed resolutions *)

\* the step ends the resolution of request r with an error
ResolutionFails(r) ==
    /\ web[r].pc \in {"locked", "probed"}
    /\ system = <<>>
    /\ web'[r].pc = "done"
    /\ web'[r].error # None

\* C36: a resolution that fails (the probe is rejected or exits non-zero, or the OS
\* detection fails) leaves the SystemManager empty; a cached System carries a credential
\* the backend accepted and a detected OS tag; while the SystemManager is empty a call
\* probes again and is not served from a cache, and the System a probe builds carries the
\* credential of that call.
C36_FailedResolutionCachesNothing ==
    /\ [][\A r \in Reqs : ResolutionFails(r) => (system' = <<>> /\ built' = built)]_vars
    /\ [](system # <<>> => (system[1].credential \in Accepted /\ system[1].os # <<>>))
    /\ [](\A r \in Reqs :
            (web[r].pc = "locked" /\ system = <<>>) =>
                (ENABLED SystemDetect(r) /\ ~ENABLED SystemCached(r)))
    /\ [][\A r \in Reqs :
            (web[r].pc = "locked" /\ web'[r].pc = "probed") =>
                web'[r].sys = <<[credential |-> web[r].cred, os |-> <<>>]>>]_vars

\* the probe of one request was rejected, and the System cached afterwards carries the
\* accepted credential of the other request
C36_Witness ==
    \E r \in Reqs, other \in Reqs :
        /\ web[r].pc = "done"
        /\ web[r].probe = "rejected"
        /\ system # <<>>
        /\ web[other].pc = "resolved"
        /\ system[1].credential = web[other].cred

-----------------------------------------------------------------------------
(* Claims about the batch submission *)

AppsCalled == call.fn = "apps_post" /\ answer # <<>>

\* the body is unparsable, or it names an app that is not registered or that is not
\* compatible with the OS tag of the System
BatchRejected ==
    \/ ~call.arg.parsed
    \/ \E i \in 1..Len(call.arg.apps) :
          \/ call.arg.apps[i].name \notin AppNames
          \/ \A k \in 1..Len(SupportedOs(call.arg.apps[i].name)) :
                ~Compatible(SupportedOs(call.arg.apps[i].name)[k], call.arg.os)

\* C37: in a batch submission every named app is looked up and checked for OS
\* compatibility before any app of the batch runs: if the body cannot be parsed, or any
\* name is unknown, or any app is incompatible, the request returns an error, no handler
\* of the batch was executed, no unit was spawned and the ledger is as it was; and a
\* batch of which a handler ran or a task was created passed every check.
C37_BatchCheckedBeforeAnyRun ==
    AppsCalled =>
        /\ BatchRejected =>
              /\ ~answer[1].result.ok
              /\ answer[1].result.val \in {"SerdeJson", "AppNotFound", "AppIncompatible"}
              /\ answer[1].ran = <<>>
              /\ answer[1].pushed = <<>>
              /\ tasks = <<>>
              /\ last_id = 0
              /\ \A id \in TaskIds : unit[id] = NoUnit
        /\ ~BatchRejected =>
              IF call.arg.async
              THEN Len(tasks) = Len(call.arg.apps) /\ answer[1].result.ok
              ELSE answer[1].ran # <<>>

\* a batch whose first app is registered and compatible and whose second app is not
\* registered was rejected: the first app did not run
C37_Witness ==
    /\ AppsCalled
    /\ call.arg.parsed
    /\ call.arg.os = "LinuxUbuntuFocal"
    /\ Len(call.arg.apps) = 2
    /\ call.arg.apps[1].name = "sh"
    /\ call.arg.apps[2].name = "wc"
    /\ ~answer[1].result.ok
    /\ answer[1].ran = <<>>
    /\ tasks = <<>>

-----------------------------------------------------------------------------
(* Claims about file handlers selected by name *)

ByNameCalled(op) == call.fn = "file_by_name" /\ call.arg.op = op /\ answer # <<>>

\* the request names a registered handler; the patterns of that handler match the
\* request path on the OS tag of the System
NameKnown == \E i \in 1..Len(Files) : Files[i].name = call.arg.name
NamedMatches ==
    \E i \in 1..Len(Files) :
        /\ Files[i].name = call.arg.name
        /\ \E k \in 1..Len(Files[i].patterns) :
              /\ PathMatches(Files[i].patterns[k], call.arg.path)
              /\ OsMatches(Files[i].patterns[k], call.arg.os)

\* C38: with a handler selected by name, read and write fail with FilesNotMatched and
\* make no call on the System unless a pattern of the named handler matches the request
\* path and the OS tag; delete calls System.delete on the request path whether or not
\* the named handler matches and whatever capabilities it declares; a name that is not
\* registered yields FilesNotMatchedByName and no call on the System, for every method.
C38_ByNameReadWriteMatchDeleteUnchecked ==
    \A op \in {"read", "write", "delete"} :
        ByNameCalled(op) =>
            IF ~NameKnown
            THEN answer[1] = Returned(Err("FilesNotMatchedByName"), <<>>)
            ELSE IF op = "delete"
            THEN /\ answer[1].calls = <<"delete">>
                 /\ answer[1].result.ok <=> call.arg.transport = "exit0"
            ELSE /\ ~NamedMatches => answer[1] = Returned(Err("FilesNotMatched"), <<>>)
                 /\ NamedMatches => answer[1].result # Err("FilesNotMatched")

\* delete by name was called on a handler that declares Read only and does not match
\* the path, on a System of unknown OS, and it reached System.delete
C38_Witness ==
    /\ ByNameCalled("delete")
    /\ call.arg.name = "UptimeBuilder"
    /\ call.arg.os = "Unknown"
    /\ ~NamedMatches
    /\ "Delete" \notin Capabilities(call.arg.name)
    /\ answer[1] = Returned(Ok("unit"), <<"delete">>)

-----------------------------------------------------------------------------
(* Claims about a System of unknown OS *)

OnDetectedOsCalled == call.fn = "on_detected_os" /\ answer # <<>>

\* /proc/version names Linux and /etc/os-release is readable and has NAME and ID lines
Described ==
    /\ call.arg.version = "linux"
    /\ call.arg.descriptor.readable
    /\ call.arg.descriptor.name
    /\ call.arg.descriptor.id # <<>>

\* C39: on a Linux endpoint, a missing release descriptor is detected as LinuxUnknown,
\* and the ids ubuntu and debian without a codename or with a codename from_str does not
\* know, and the id fedora, are detected as Unknown; whenever the detection yields Unknown
\* or LinuxUnknown, the registered app reports compatible = false, a run request for it
\* fails with AppIncompatible, and file_builders_mut_by_match fails with
\* FilesNotMatchedByPattern on the path, for every registered app and every path.
C39_UnknownOsServesNothing ==
    OnDetectedOsCalled =>
        /\ (call.arg.version = "linux" /\ ~call.arg.descriptor.readable) =>
              answer[1].os = Ok("LinuxUnknown")
        /\ (Described /\ call.arg.descriptor.id[1] \in {"ubuntu", "debian"}
                      /\ call.arg.descriptor.version_codename \in {<<>>, <<"mantic">>}) =>
              answer[1].os = Ok("Unknown")
        /\ (Described /\ call.arg.descriptor.id[1] = "fedora") => answer[1].os = Ok("Unknown")
        /\ answer[1].os \in {Ok("Unknown"), Ok("LinuxUnknown")} =>
              /\ answer[1].compatible = <<FALSE>>
              /\ answer[1].run = <<Err("AppIncompatible")>>
              /\ answer[1].resolve = <<Err("FilesNotMatchedByPattern")>>

\* the endpoint has no readable release descriptor: the OS is LinuxUnknown, wget is not
\* compatible and /proc/version resolves to no handler
C39_Witness ==
    /\ OnDetectedOsCalled
    /\ ~call.arg.descriptor.readable
    /\ call.arg.name = "wget"
    /\ call.arg.path = <<"/", "p", "r", "o", "c", "/", "v", "e", "r", "s", "i", "o", "n">>
    /\ answer[1].os = Ok("LinuxUnknown")
    /\ answer[1].run = <<Err("AppIncompatible")>>
    /\ answer[1].resolve = <<Err("FilesNotMatchedByPattern")>>

-----------------------------------------------------------------------------
(* Claims about requests without an Authorization header *)

\* request r is in flight and carries no Authorization header
Headerless(r) == web[r].pc # "idle" /\ web[r].header = NoHeader

\* the step is one of a request without a header: its arrival or a later step of it
HeaderlessStep(r) ==
    /\ web'[r] # web[r]
    /\ Headerless(r) \/ (web[r].pc = "idle" /\ web'[r].header = NoHeader)

\* C40: a request without an Authorization header is answered UNAUTHORIZED; it never
\* holds a System, looks up or runs an app or a file operation, or carries a credential;
\* and no step of it changes the SystemManager, the auth list and its tokens, the set of
\* revoked tokens, the ledger, the spawned units or the holder of the Controller lock.
C40_NoHeaderUnauthorizedNoEffect ==
    /\ [](\A r \in Reqs :
            Headerless(r) =>
                /\ web[r].pc \in {"next", "returned", "done"}
                /\ web[r].pc = "done" => web[r].status = "UNAUTHORIZED"
                /\ web[r].sys = <<>>
                /\ web[r].cred = NoCred
                /\ web[r].probe = "none"
                /\ ~web[r].looked
                /\ ~web[r].ran
                /\ ctrlLock # r)
    /\ [][\A r \in Reqs :
            HeaderlessStep(r) =>
                /\ UNCHANGED <<system, built, revoked, ctrlLock>>
                /\ UNCHANGED <<auths, nextToken, issued>>
                /\ UNCHANGED <<tasks, last_id, unit, ledgerLock>>]_vars

\* a DELETE /token request without a header was answered UNAUTHORIZED while a System is
\* cached and a token is listed: both are still there
C40_Witness ==
    \E r \in Reqs :
        /\ Headerless(r)
        /\ web[r].route.kind = "tokenDelete"
        /\ web[r].pc = "done"
        /\ web[r].status = "UNAUTHORIZED"
        /\ system # <<>>
        /\ Len(auths) = 1

====
